---- MODULE Spec2Model ----
(***************************************************************************)
(* Combat and movement simulation of the tower-defense game:               *)
(* MovementSystem.tick, CombatSystem.tick, EffectsRegistry.applyImpact and *)
(* the frame update that calls them.                                       *)
(*                                                                         *)
(* Units.  Positions and radii are whole pixels.  Time is counted in ticks *)
(* of 1/TicksPerSecond second, so that every cooldown 1/attacksPerSecond   *)
(* of the modelled tower types and every per-frame travel budget is a      *)
(* whole number.  Rational factors (damage multiplier, chain falloff) are  *)
(* numerators over a fixed denominator and Math.round is computed on the   *)
(* exact quotient.                                                         *)
(***************************************************************************)
EXTENDS Integers, Sequences, FiniteSets, TLC

\* ------------------------------------------------------------------------
\* Bounds of the model
\* ------------------------------------------------------------------------
MaxEnemies == 2
MaxTowers == 2
MaxClock == 6
MaxTargetEnemies == 3
MaxChainEnemies == 3

\* ------------------------------------------------------------------------
\* Program constants
\* ------------------------------------------------------------------------
TicksPerSecond == 88
FrameTicks == 11
gridCellSize == 40
projectileLerpSpeedPerSecond == 6
startingMoney == 2000
startingLives == 20
MultDen == 2
FalloffDen == 10

\* frame lengths deltaSeconds, in frames of FrameTicks ticks (1/8 s)
DeltaFrames == {0, 1, 3}

\* ------------------------------------------------------------------------
\* Arithmetic
\* ------------------------------------------------------------------------
Abs(n) == IF n < 0 THEN -n ELSE n
Min2(a, b) == IF a < b THEN a ELSE b
Max2(a, b) == IF a > b THEN a ELSE b

\* Math.round of the rational num/den (den > 0): floor(num/den + 1/2)
Round(num, den) == (2 * num + den) \div (2 * den)

\* num / den cut to a whole number toward zero
Trunc(num, den) == IF num < 0 THEN -((-num) \div den) ELSE num \div den

\* squared Euclidean length; Math.hypot values are compared through it
Sq(dx, dy) == dx * dx + dy * dy

RECURSIVE ISqrtFrom(_, _)
ISqrtFrom(n, r) == IF (r + 1) * (r + 1) > n THEN r ELSE ISqrtFrom(n, r + 1)

\* Math.hypot(dx, dy); exact on axis-aligned vectors, floor otherwise
Hypot(dx, dy) ==
    IF dy = 0 THEN Abs(dx)
    ELSE IF dx = 0 THEN Abs(dy)
    ELSE ISqrtFrom(Sq(dx, dy), 0)

\* Math.round(raw * (1 - distance/radius)) for distance = sqrt(distSq) < radius,
\* exactly: the largest k with  raw * distance / radius <= raw + 1/2 - k
RoundFalloff(raw, distSq, radius) ==
    LET Fits(k) == 4 * raw * raw * distSq
                     <= radius * radius * (2 * raw + 1 - 2 * k) * (2 * raw + 1 - 2 * k)
        ks == {k \in 0..raw : Fits(k)}
    IN CHOOSE k \in ks : \A j \in ks : j <= k

\* ------------------------------------------------------------------------
\* Configuration
\* ------------------------------------------------------------------------
\* map.pathCells of the modelled map and GridMap.waypoints (cell centres)
pathCells == << [x |-> 0, y |-> 0], [x |-> 1, y |-> 0], [x |-> 1, y |-> 1], [x |-> 2, y |-> 1] >>

waypoints ==
    [i \in 1..Len(pathCells) |->
        [x |-> pathCells[i].x * gridCellSize + gridCellSize \div 2,
         y |-> pathCells[i].y * gridCellSize + gridCellSize \div 2]]

\* waypoints[idx] with the 0-based index of the source
Waypoint(idx) == waypoints[idx + 1]
WaypointCount == Len(waypoints)

NullEffects == [isNull |-> TRUE]
IsNull(effects) == "isNull" \in DOMAIN effects

TeslaChain ==
    [enabled |-> TRUE, maxJumps |-> 3, jumpRadius |-> 120,
     damageFalloff |-> 6, preferUntargeted |-> FALSE]

\* the aftershock the shockwave upgrade unlocks; delayMs 600 is held as 55
\* ticks, damageMultiplier 0.6 in tenths
ShockwaveAftershock ==
    [enabled |-> TRUE, delayMs |-> 55, radiusPixelsOverride |-> 90, damageMultiplier |-> 6]

\* upgrades of the aftershock tower with whole results: range (multipliers
\* in tenths) and shockwave; levels[k + 1] is the level bought at state k
AftershockUpgrades ==
    [range |-> [levels |-> << [cost |-> 120, multiplier |-> [attackRangePixels |-> 12]],
                              [cost |-> 220, multiplier |-> [attackRangePixels |-> 15]] >>],
     shockwave |-> [levels |-> << [cost |-> 300,
                                   unlocksEffect |->
                                      [projectileEffects |->
                                          [aftershock |-> ShockwaveAftershock]]] >>]]

\* towersByTypeKey; attacksPerSecond is held in tenths
towersByTypeKey ==
    [basic |-> [buildCost |-> 30, attackRangePixels |-> 90, attacksPerSecond |-> 8,
                damagePerShot |-> 8, splash |-> 0, projectileEffects |-> NullEffects],
     sniper |-> [buildCost |-> 60, attackRangePixels |-> 220, attacksPerSecond |-> 16,
                 damagePerShot |-> 28, splash |-> 0, projectileEffects |-> NullEffects],
     missile |-> [buildCost |-> 120, attackRangePixels |-> 240, attacksPerSecond |-> 5,
                  damagePerShot |-> 25, splash |-> 80, projectileEffects |-> NullEffects],
     tesla |-> [buildCost |-> 140, attackRangePixels |-> 180, attacksPerSecond |-> 11,
                damagePerShot |-> 22, splash |-> 0,
                projectileEffects |-> [chain |-> TeslaChain]],
     aftershock |-> [buildCost |-> 150, attackRangePixels |-> 160, attacksPerSecond |-> 9,
                     damagePerShot |-> 28, splash |-> 0,
                     projectileEffects |-> [explosion |-> [enabled |-> TRUE]],
                     upgrades |-> AftershockUpgrades]]

TowerTypeKeys == DOMAIN towersByTypeKey

\* the types placed in whole-frame runs: a direct-hit tower, an AoE tower
\* and a chain tower
FrameTowerTypeKeys == {"basic", "missile", "tesla"}

\* 1 / attacksPerSecond seconds, in ticks
CooldownTicks(attacksPerSecond) == (10 * TicksPerSecond) \div attacksPerSecond

\* grid cells offered for tower placement (off the path)
TowerCells == { [x |-> 0, y |-> 1], [x |-> 3, y |-> 1] }

FootprintCenter(cell) ==
    [x |-> cell.x * gridCellSize + gridCellSize \div 2,
     y |-> cell.y * gridCellSize + gridCellSize \div 2]

\* stat blocks of the admin panel's enemy builder
EnemyStatBlocks ==
    { [hitPoints |-> 10, movementSpeedCellsPerSecond |-> 6, rewardMoney |-> 8],
      [hitPoints |-> 30, movementSpeedCellsPerSecond |-> 2, rewardMoney |-> 8] }

TargetingModes == {"closest", "first", "last", "strongest", "weakest"}

VARIABLES gameState, targetingMode, clock, impactCount, leaked

vars == << gameState, targetingMode, clock, impactCount, leaked >>

\* ------------------------------------------------------------------------
\* Entities
\* ------------------------------------------------------------------------
\* new EnemyEntity(statBlock, waypoints)
EnemyEntity(statBlock) ==
    [hitPoints |-> statBlock.hitPoints,
     movementSpeedCellsPerSecond |-> statBlock.movementSpeedCellsPerSecond,
     rewardMoney |-> statBlock.rewardMoney,
     x |-> Waypoint(0).x,
     y |-> Waypoint(0).y,
     currentWaypointIndex |-> 1,
     isMarkedDead |-> FALSE,
     reachedEndOfPath |-> FALSE,
     lastDamageAmount |-> 0,
     maximumHitPoints |-> statBlock.hitPoints]

\* new TowerEntity(definition, pixelX, pixelY, gridX, gridY, towerTypeKey);
\* the constructor copies neither projectileEffects nor aoe nor damageType
TowerEntity(definition, pixel, towerTypeKey) ==
    [towerTypeKey |-> towerTypeKey,
     x |-> pixel.x,
     y |-> pixel.y,
     damagePerShot |-> definition.damagePerShot,
     attacksPerSecond |-> definition.attacksPerSecond,
     attackRangePixels |-> definition.attackRangePixels,
     splash |-> definition.splash,
     projectileEffects |-> NullEffects,
     cooldownSeconds |-> 0,
     currentTarget |-> 0]

\* one entry of the record of what a frame did
Event(kind, projectile, enemy, amount) ==
    [kind |-> kind, projectile |-> projectile, enemy |-> enemy, amount |-> amount]

\* appends one entry to the record of what the frame did
Emit(gs, event) == [gs EXCEPT !.trace = Append(@, event)]

\* ------------------------------------------------------------------------
\* MovementSystem.tick
\* ------------------------------------------------------------------------
\* speedPxPerSec * dt, in pixels
TravelBudget(enemy, deltaTicks) ==
    (enemy.movementSpeedCellsPerSecond * gridCellSize * deltaTicks) \div TicksPerSecond

\* ConsumeDistance stopping at the first waypoint it reaches
ConsumeDistanceOneWaypoint(x, y, idx, remaining) ==
    IF ~(remaining > 0 /\ idx < WaypointCount)
    THEN [x |-> x, y |-> y, idx |-> idx]
    ELSE LET target == Waypoint(idx)
             dx == target.x - x
             dy == target.y - y
             dist == Hypot(dx, dy)
         IN IF dist = 0 \/ remaining >= dist
            THEN [x |-> target.x, y |-> target.y, idx |-> idx + 1]
            ELSE [x |-> x + (dx * remaining) \div dist,
                  y |-> y + (dy * remaining) \div dist,
                  idx |-> idx]

\* the while loop that consumes the budget across waypoints
RECURSIVE ConsumeDistance(_, _, _, _)
ConsumeDistance(x, y, idx, remaining) ==
    IF ~(remaining > 0 /\ idx < WaypointCount)
    THEN [x |-> x, y |-> y, idx |-> idx]
    ELSE LET target == Waypoint(idx)
             dx == target.x - x
             dy == target.y - y
             dist == Hypot(dx, dy)
         IN IF dist = 0
            THEN ConsumeDistance(x, y, idx + 1, remaining)
            ELSE IF remaining >= dist
            THEN ConsumeDistance(target.x, target.y, idx + 1, remaining - dist)
            ELSE [x |-> x + (dx * remaining) \div dist,
                  y |-> y + (dy * remaining) \div dist,
                  idx |-> idx]

\* MoveEnemy with the end-of-path branch taking the life but setting no flag
MoveEnemyUnflagged(gs, id, deltaTicks) ==
    LET enemy == gs.obj[id]
        idx0 == Max2(0, Min2(enemy.currentWaypointIndex, WaypointCount - 1))
        pos == ConsumeDistance(enemy.x, enemy.y, idx0, TravelBudget(enemy, deltaTicks))
        last == Waypoint(WaypointCount - 1)
    IN IF enemy.isMarkedDead THEN gs
       ELSE IF WaypointCount < 2 THEN gs
       ELSE IF pos.idx >= WaypointCount
       THEN LET snapped == [enemy EXCEPT !.x = last.x, !.y = last.y,
                                         !.currentWaypointIndex = WaypointCount - 1]
            IN IF ~enemy.reachedEndOfPath
               THEN Emit([gs EXCEPT !.obj[id] = snapped,
                                    !.lives = Max2(0, gs.lives - 1)],
                         Event("leak", 0, id, 0))
               ELSE [gs EXCEPT !.obj[id] = snapped]
       ELSE [gs EXCEPT !.obj[id] = [enemy EXCEPT !.x = pos.x, !.y = pos.y,
                                                 !.currentWaypointIndex = pos.idx]]

\* MoveEnemy storing the index the loop ended with, past the last waypoint
MoveEnemyUnpinned(gs, id, deltaTicks) ==
    LET enemy == gs.obj[id]
        idx0 == Max2(0, Min2(enemy.currentWaypointIndex, WaypointCount - 1))
        pos == ConsumeDistance(enemy.x, enemy.y, idx0, TravelBudget(enemy, deltaTicks))
        last == Waypoint(WaypointCount - 1)
    IN IF enemy.isMarkedDead THEN gs
       ELSE IF WaypointCount < 2 THEN gs
       ELSE IF pos.idx >= WaypointCount
       THEN LET snapped == [enemy EXCEPT !.x = last.x, !.y = last.y,
                                         !.currentWaypointIndex = pos.idx]
            IN IF ~enemy.reachedEndOfPath
               THEN Emit([gs EXCEPT !.obj[id] = [snapped EXCEPT !.reachedEndOfPath = TRUE,
                                                              !.isMarkedDead = TRUE],
                                    !.lives = Max2(0, gs.lives - 1)],
                         Event("leak", 0, id, 0))
               ELSE [gs EXCEPT !.obj[id] = snapped]
       ELSE [gs EXCEPT !.obj[id] = [enemy EXCEPT !.x = pos.x, !.y = pos.y,
                                                 !.currentWaypointIndex = pos.idx]]

\* one iteration of the loop over gameState.enemies
MoveEnemy(gs, id, deltaTicks) ==
    LET enemy == gs.obj[id]
        idx0 == Max2(0, Min2(enemy.currentWaypointIndex, WaypointCount - 1))
        pos == ConsumeDistance(enemy.x, enemy.y, idx0, TravelBudget(enemy, deltaTicks))
        last == Waypoint(WaypointCount - 1)
    IN IF enemy.isMarkedDead THEN gs
       ELSE IF WaypointCount < 2 THEN gs
       ELSE IF pos.idx >= WaypointCount
       THEN LET snapped == [enemy EXCEPT !.x = last.x, !.y = last.y,
                                         !.currentWaypointIndex = WaypointCount - 1]
            IN IF ~enemy.reachedEndOfPath
               THEN Emit([gs EXCEPT !.obj[id] = [snapped EXCEPT !.reachedEndOfPath = TRUE,
                                                              !.isMarkedDead = TRUE],
                                    !.lives = Max2(0, gs.lives - 1)],
                         Event("leak", 0, id, 0))
               ELSE [gs EXCEPT !.obj[id] = snapped]
       ELSE [gs EXCEPT !.obj[id] = [enemy EXCEPT !.x = pos.x, !.y = pos.y,
                                                 !.currentWaypointIndex = pos.idx]]

RECURSIVE MoveEnemiesFrom(_, _, _)
MoveEnemiesFrom(gs, i, deltaTicks) ==
    IF i > Len(gs.enemies) THEN gs
    ELSE MoveEnemiesFrom(MoveEnemy(gs, gs.enemies[i], deltaTicks), i + 1, deltaTicks)

\* MovementSystemTick also running down the towers' cooldowns
MovementSystemTickCoolsTowers(gs, deltaTicks) ==
    IF deltaTicks = 0 THEN gs
    ELSE MoveEnemiesFrom(
            [gs EXCEPT !.towers = [i \in DOMAIN gs.towers |->
                                      [gs.towers[i] EXCEPT !.cooldownSeconds = @ - deltaTicks]]],
            1, deltaTicks)

\* MovementSystem.tick(gameState, deltaSeconds)
MovementSystemTick(gs, deltaTicks) ==
    IF deltaTicks = 0 THEN gs ELSE MoveEnemiesFrom(gs, 1, deltaTicks)

\* ------------------------------------------------------------------------
\* CombatSystem: target selection
\* ------------------------------------------------------------------------
\* enemies.filter(...) of chooseTargetByMode: ids not marked dead and in range
RECURSIVE EnemiesWithinRange(_, _, _)
EnemiesWithinRange(gs, tower, i) ==
    IF i > Len(gs.enemies) THEN << >>
    ELSE LET id == gs.enemies[i]
             enemy == gs.obj[id]
             rest == EnemiesWithinRange(gs, tower, i + 1)
         IN IF enemy.isMarkedDead THEN rest
            ELSE IF Sq(tower.x - enemy.x, tower.y - enemy.y)
                      <= tower.attackRangePixels * tower.attackRangePixels
            THEN << id >> \o rest
            ELSE rest

\* KeepsBest comparing distances whatever the mode
KeepsBestByDistance(mode, tower, best, candidate) ==
    Sq(tower.x - best.x, tower.y - best.y) < Sq(tower.x - candidate.x, tower.y - candidate.y)

\* KeepsBest with the comparisons made non-strict
KeepsBestOrEqual(mode, tower, best, candidate) ==
    CASE mode = "first" -> best.currentWaypointIndex >= candidate.currentWaypointIndex
      [] mode = "last" -> best.currentWaypointIndex <= candidate.currentWaypointIndex
      [] mode = "strongest" -> best.hitPoints >= candidate.hitPoints
      [] mode = "weakest" -> best.hitPoints <= candidate.hitPoints
      [] OTHER -> Sq(tower.x - best.x, tower.y - best.y)
                    <= Sq(tower.x - candidate.x, tower.y - candidate.y)

\* the callback of reduce: TRUE when it returns best, FALSE when candidate
KeepsBest(mode, tower, best, candidate) ==
    CASE mode = "first" -> best.currentWaypointIndex > candidate.currentWaypointIndex
      [] mode = "last" -> best.currentWaypointIndex < candidate.currentWaypointIndex
      [] mode = "strongest" -> best.hitPoints > candidate.hitPoints
      [] mode = "weakest" -> best.hitPoints < candidate.hitPoints
      [] OTHER -> Sq(tower.x - best.x, tower.y - best.y)
                    < Sq(tower.x - candidate.x, tower.y - candidate.y)

RECURSIVE ReduceFrom(_, _, _, _, _, _)
ReduceFrom(gs, mode, tower, ids, i, best) ==
    IF i > Len(ids) THEN best
    ELSE ReduceFrom(gs, mode, tower, ids, i + 1,
                    IF KeepsBest(mode, tower, gs.obj[best], gs.obj[ids[i]])
                    THEN best ELSE ids[i])

\* returns the id of the chosen enemy, 0 for null
chooseTargetByMode(mode, tower, gs) ==
    LET ids == EnemiesWithinRange(gs, tower, 1)
    IN IF Len(ids) = 0 THEN 0
       ELSE ReduceFrom(gs, mode, tower, ids, 2, ids[1])

\* ------------------------------------------------------------------------
\* Damage
\* ------------------------------------------------------------------------
typeMultFor == 1

\* Math.max(0, Math.round(damagePerHit * towerDamageMultiplier * typeMultFor))
RawDamage(gs, damagePerHit) ==
    Max2(0, Round(damagePerHit * gs.modifiers.towerDamageMultiplier * typeMultFor, MultDen))

\* the body of "if (applied > 0)" of the direct hit and of the AoE sweep
ApplyDamage(gs, projectile, id, before, applied, path) ==
    IF applied > 0
    THEN Emit(Emit([gs EXCEPT !.obj[id].hitPoints = before - applied,
                              !.obj[id].lastDamageAmount = applied],
                   Event(path, projectile.id, id, applied)),
              Event("text", projectile.id, id, applied))
    ELSE gs

\* DirectHit without the clamp to the health the target has left
DirectHitUnclamped(gs, projectile) ==
    LET id == projectile.targetEnemy
        before == gs.obj[id].hitPoints
        applied == RawDamage(gs, projectile.damagePerHit)
    IN ApplyDamage(gs, projectile, id, before, applied, "direct")

\* direct hit on projectile.targetEnemy
DirectHit(gs, projectile) ==
    LET id == projectile.targetEnemy
        before == Max2(0, gs.obj[id].hitPoints)
        applied == Min2(RawDamage(gs, projectile.damagePerHit), before)
    IN ApplyDamage(gs, projectile, id, before, applied, "direct")

\* Math.round(num/den * (1 - distance/radius)) for distance = sqrt(distSq)
\* < radius: one rounding of the whole product
SingleRoundFalloff(num, den, distSq, radius) ==
    LET Fits(k) == 4 * num * num * distSq
                     <= radius * radius * (2 * num + den - 2 * k * den)
                                        * (2 * num + den - 2 * k * den)
        ks == {k \in 0..((2 * num + den) \div (2 * den)) : Fits(k)}
    IN CHOOSE k \in ks : \A j \in ks : j <= k

\* AoeHit rounding once, the product of damage, multipliers and falloff
AoeHitSingleRounding(gs, projectile, id, radius) ==
    LET enemy == gs.obj[id]
        distSq == Sq(enemy.x - projectile.targetX, enemy.y - projectile.targetY)
        before == Max2(0, enemy.hitPoints)
        product == projectile.damagePerHit * gs.modifiers.towerDamageMultiplier * typeMultFor
    IN IF enemy.isMarkedDead THEN gs
       ELSE IF distSq < radius * radius
       THEN ApplyDamage(gs, projectile, id, before,
                        Min2(before, SingleRoundFalloff(product, MultDen, distSq, radius)),
                        "aoe")
       ELSE gs

\* one iteration of the AoE sweep
AoeHit(gs, projectile, id, radius) ==
    LET enemy == gs.obj[id]
        distSq == Sq(enemy.x - projectile.targetX, enemy.y - projectile.targetY)
        before == Max2(0, enemy.hitPoints)
        raw == RawDamage(gs, projectile.damagePerHit)
        applied == Min2(before, RoundFalloff(raw, distSq, radius))
    IN IF enemy.isMarkedDead THEN gs
       ELSE IF distSq < radius * radius
       THEN ApplyDamage(gs, projectile, id, before, applied, "aoe")
       ELSE gs

RECURSIVE AoeSweepFrom(_, _, _, _)
AoeSweepFrom(gs, projectile, radius, i) ==
    IF i > Len(gs.enemies) THEN gs
    ELSE AoeSweepFrom(AoeHit(gs, projectile, gs.enemies[i], radius), projectile, radius, i + 1)

\* ------------------------------------------------------------------------
\* EffectsRegistry: chain
\* ------------------------------------------------------------------------
\* Math.max(1, cfg.maxJumps ?? 3)
ChainMaxJumps(cfg) == Max2(1, cfg.maxJumps)

\* Math.max(1, cfg.jumpRadius ?? 120)
ChainJumpRadius(cfg) == Max2(1, cfg.jumpRadius)

\* ChainFalloff without decay
ChainFalloffNone(cfg) == FalloffDen

\* Math.max(0, Math.min(1, cfg.damageFalloff ?? 0.6)), in tenths
ChainFalloff(cfg) == Max2(0, Min2(FalloffDen, cfg.damageFalloff))

\* ChainConsider without the visited check
ChainConsiderRevisits(gs, projectile, cfg, c, sel, id) ==
    LET enemy == gs.obj[id]
        d == Sq(enemy.x - c.currentX, enemy.y - c.currentY)
        radius == ChainJumpRadius(cfg)
        closer == sel.best = 0 \/ d < sel.bestDist
        taken == [best |-> id, bestDist |-> d]
    IN IF enemy.isMarkedDead THEN sel
       ELSE IF d > radius * radius THEN sel
       ELSE IF cfg.preferUntargeted /\ id # projectile.targetEnemy
       THEN IF sel.best = 0 \/ (closer /\ sel.best = projectile.targetEnemy)
            THEN taken ELSE sel
       ELSE IF closer THEN taken ELSE sel

\* ChainConsider keeping the farther candidate when preferUntargeted is unset
ChainConsiderFarthest(gs, projectile, cfg, c, sel, id) ==
    LET enemy == gs.obj[id]
        d == Sq(enemy.x - c.currentX, enemy.y - c.currentY)
        radius == ChainJumpRadius(cfg)
        closer == sel.best = 0 \/ d < sel.bestDist
        farther == sel.best = 0 \/ d > sel.bestDist
        taken == [best |-> id, bestDist |-> d]
    IN IF enemy.isMarkedDead THEN sel
       ELSE IF id \in c.visited THEN sel
       ELSE IF d > radius * radius THEN sel
       ELSE IF cfg.preferUntargeted /\ id # projectile.targetEnemy
       THEN IF sel.best = 0 \/ (closer /\ sel.best = projectile.targetEnemy)
            THEN taken ELSE sel
       ELSE IF farther THEN taken ELSE sel

\* one iteration of the search loop: sel = [best, bestDist], bestDist squared,
\* best = 0 standing for null with bestDist = Infinity
ChainConsider(gs, projectile, cfg, c, sel, id) ==
    LET enemy == gs.obj[id]
        d == Sq(enemy.x - c.currentX, enemy.y - c.currentY)
        radius == ChainJumpRadius(cfg)
        closer == sel.best = 0 \/ d < sel.bestDist
        taken == [best |-> id, bestDist |-> d]
    IN IF enemy.isMarkedDead THEN sel
       ELSE IF id \in c.visited THEN sel
       ELSE IF d > radius * radius THEN sel
       ELSE IF cfg.preferUntargeted /\ id # projectile.targetEnemy
       THEN IF sel.best = 0 \/ (closer /\ sel.best = projectile.targetEnemy)
            THEN taken ELSE sel
       ELSE IF closer THEN taken ELSE sel

RECURSIVE ChainSearchFrom(_, _, _, _, _, _)
ChainSearchFrom(gs, projectile, cfg, c, sel, i) ==
    IF i > Len(gs.enemies) THEN sel
    ELSE ChainSearchFrom(gs, projectile, cfg, c,
                         ChainConsider(gs, projectile, cfg, c, sel, gs.enemies[i]), i + 1)

\* the loop "for (let j = 0; j < maxJumps; j++)"; c holds currentX, currentY,
\* currentDamage and visited
RECURSIVE ChainJumpsFrom(_, _, _, _, _)
ChainJumpsFrom(gs, projectile, cfg, c, j) ==
    IF ~(j < ChainMaxJumps(cfg)) THEN gs
    ELSE LET sel == ChainSearchFrom(gs, projectile, cfg, c, [best |-> 0, bestDist |-> 0], 1)
             best == sel.best
         IN IF best = 0 THEN gs
            ELSE LET before == Max2(0, gs.obj[best].hitPoints)
                     raw == Max2(0, Round(c.currentDamage * gs.modifiers.towerDamageMultiplier,
                                          MultDen))
                     applied == Min2(before, raw)
                     hit == IF applied > 0
                            THEN [gs EXCEPT !.obj[best].hitPoints = before - applied,
                                            !.obj[best].lastDamageAmount = applied]
                            ELSE gs
                     beam == Emit(hit, Event("hop", projectile.id, best, applied))
                     nextDamage == Round(c.currentDamage * ChainFalloff(cfg), FalloffDen)
                     next == [currentX |-> gs.obj[best].x,
                              currentY |-> gs.obj[best].y,
                              currentDamage |-> nextDamage,
                              visited |-> c.visited \cup {best}]
                 IN IF nextDamage <= 0 THEN beam
                    ELSE ChainJumpsFrom(beam, projectile, cfg, next, j + 1)

applyChainImpact(gs, projectile, cfg) ==
    IF ~cfg.enabled THEN gs
    ELSE ChainJumpsFrom(gs, projectile, cfg,
                        [currentX |-> projectile.targetX,
                         currentY |-> projectile.targetY,
                         currentDamage |-> projectile.damagePerHit,
                         visited |-> {}],
                        0)

\* new ProjectileEntity({...}): the constructor's arguments, no progress yet
ProjectileEntity(id, x, y, targetX, targetY, damagePerHit, towerTypeKey, targetEnemy, aoe, effects) ==
    [id |-> id, x |-> x, y |-> y, targetX |-> targetX, targetY |-> targetY,
     damagePerHit |-> damagePerHit, towerTypeKey |-> towerTypeKey,
     targetEnemy |-> targetEnemy, aoe |-> aoe, effects |-> effects,
     travelProgress |-> 0, isComplete |-> FALSE]

\* ------------------------------------------------------------------------
\* EffectsRegistry: cluster, aftershock, dispatch
\* ------------------------------------------------------------------------
\* Math.max(1, cfg.count ?? 6)
ClusterCount(cfg) == Max2(1, cfg.count)

\* cosine and sine of an angle given in quarter turns
CosQuarter(q) == CASE q % 4 = 0 -> 1 [] q % 4 = 2 -> -1 [] OTHER -> 0
SinQuarter(q) == CASE q % 4 = 1 -> 1 [] q % 4 = 3 -> -1 [] OTHER -> 0

\* centerAngle + ((i / count) - 0.5) * spread, in quarter turns (spread in
\* degrees; the configurations keep i * spread / count a multiple of 90)
ClusterAngle(centerAngle, i, count, spread) ==
    centerAngle + (i * spread) \div (count * 90) - spread \div 180

\* cfg.childEffects ?? { explosion: {...} }
ClusterChildEffects(cfg) ==
    IF IsNull(cfg.childEffects) THEN [explosion |-> [enabled |-> TRUE]]
    ELSE cfg.childEffects

\* the child pushed by iteration i of the loop of applyClusterImpact;
\* childDamageScale in hundredths, childSpeedScale in quarters
ClusterChild(gs, projectile, cfg, i) ==
    LET count == ClusterCount(cfg)
        angle == ClusterAngle(gs.mathRandom.angle, i, count, cfg.spread)
        dist == Max2(0, cfg.childDistance)
                  + (gs.mathRandom.unit * cfg.childDistanceJitter) \div 2
        child == ProjectileEntity(gs.nextProjectileId,
                                  projectile.targetX, projectile.targetY,
                                  projectile.targetX + CosQuarter(angle) * dist,
                                  projectile.targetY + SinQuarter(angle) * dist,
                                  Round(projectile.damagePerHit * cfg.childDamageScale, 100),
                                  projectile.towerTypeKey, 0,
                                  cfg.childAoe, ClusterChildEffects(cfg))
    IN IF cfg.childSpeedScale # 4
       THEN child @@ [overrideLerpSpeed |->
                         (projectileLerpSpeedPerSecond * cfg.childSpeedScale) \div 4]
       ELSE child

\* the loop "for (let i = 0; i < count; i++)" of applyClusterImpact
RECURSIVE ClusterChildrenFrom(_, _, _, _)
ClusterChildrenFrom(gs, projectile, cfg, i) ==
    IF ~(i < ClusterCount(cfg)) THEN gs
    ELSE ClusterChildrenFrom(
            Emit([gs EXCEPT !.projectiles = Append(@, ClusterChild(gs, projectile, cfg, i)),
                            !.nextProjectileId = @ + 1],
                 Event("spawn", projectile.id, 0, gs.nextProjectileId)),
            projectile, cfg, i + 1)

applyClusterImpact(gs, projectile, cfg) ==
    IF ~cfg.enabled THEN gs
    ELSE ClusterChildrenFrom(gs, projectile, cfg, 0)

\* (cfg.radiusPixelsOverride ?? aoeRadius) || 80
AftershockRadius(cfg, aoeRadius) ==
    LET radius == IF "radiusPixelsOverride" \in DOMAIN cfg
                  THEN cfg.radiusPixelsOverride ELSE aoeRadius
    IN IF radius = 0 THEN 80 ELSE radius

\* applyAftershockImpact scheduling the entry for the current time
applyAftershockImpactNoDelay(gs, projectile, cfg, aoeRadius) ==
    IF ~cfg.enabled THEN gs
    ELSE LET entry == [type |-> "aftershock",
                       x |-> projectile.targetX,
                       y |-> projectile.targetY,
                       radius |-> AftershockRadius(cfg, aoeRadius),
                       damagePerHit |-> Round(projectile.damagePerHit * cfg.damageMultiplier,
                                              FalloffDen),
                       towerTypeKey |-> projectile.towerTypeKey,
                       dueAt |-> gs.performanceNow]
         IN Emit([gs EXCEPT !.scheduledEffects = Append(@, entry)],
                 Event("schedule", projectile.id, 0, entry.dueAt))

\* applyAftershockImpact: nothing is damaged, an entry is pushed to
\* gameState.scheduledEffects; delayMs and dueAt in ticks, damageMultiplier
\* in tenths
applyAftershockImpact(gs, projectile, cfg, aoeRadius) ==
    IF ~cfg.enabled THEN gs
    ELSE LET entry == [type |-> "aftershock",
                       x |-> projectile.targetX,
                       y |-> projectile.targetY,
                       radius |-> AftershockRadius(cfg, aoeRadius),
                       damagePerHit |-> Round(projectile.damagePerHit * cfg.damageMultiplier,
                                              FalloffDen),
                       towerTypeKey |-> projectile.towerTypeKey,
                       dueAt |-> gs.performanceNow + Max2(0, cfg.delayMs)]
         IN Emit([gs EXCEPT !.scheduledEffects = Append(@, entry)],
                 Event("schedule", projectile.id, 0, entry.dueAt))

\* "aoeRadius || 80"
KnockbackRadius(aoeRadius) == IF aoeRadius # 0 THEN aoeRadius ELSE 80

\* maxKb: cfg.maxPx when finite, else floor(kRadius * 0.35) kept within 10..80
KnockbackMax(cfg, kRadius) ==
    IF "maxPx" \in DOMAIN cfg THEN Max2(0, cfg.maxPx)
    ELSE Max2(10, Min2(80, (kRadius * 35) \div 100))

\* KnockbackForward asking for the previous-tick position first
KnockbackForwardPrevFirst(enemy) ==
    IF "prevX" \in DOMAIN enemy /\ "prevY" \in DOMAIN enemy
    THEN <<enemy.x - enemy.prevX, enemy.y - enemy.prevY>>
    ELSE IF "vx" \in DOMAIN enemy /\ "vy" \in DOMAIN enemy /\ (enemy.vx # 0 \/ enemy.vy # 0)
    THEN <<enemy.vx, enemy.vy>>
    ELSE IF "nextWaypoint" \in DOMAIN enemy
    THEN <<enemy.nextWaypoint.x - enemy.x, enemy.nextWaypoint.y - enemy.y>>
    ELSE <<0, 0>>

\* (fx, fy): velocity, else toward nextWaypoint, else toward
\* waypoints[_waypointIndex], else from the previous-tick position; <<0, 0>>
\* when none applies
KnockbackForward(enemy) ==
    IF "vx" \in DOMAIN enemy /\ "vy" \in DOMAIN enemy /\ (enemy.vx # 0 \/ enemy.vy # 0)
    THEN <<enemy.vx, enemy.vy>>
    ELSE IF "nextWaypoint" \in DOMAIN enemy
    THEN <<enemy.nextWaypoint.x - enemy.x, enemy.nextWaypoint.y - enemy.y>>
    ELSE IF "waypointIndex" \in DOMAIN enemy /\ enemy.waypointIndex \in 0..(WaypointCount - 1)
    THEN <<Waypoint(enemy.waypointIndex).x - enemy.x, Waypoint(enemy.waypointIndex).y - enemy.y>>
    ELSE IF "prevX" \in DOMAIN enemy /\ "prevY" \in DOMAIN enemy
    THEN <<enemy.x - enemy.prevX, enemy.y - enemy.prevY>>
    ELSE <<0, 0>>

\* the displacement <<dx, dy>> of one enemy inside the radius: against
\* (fx, fy) by the impulse; with no direction a quarter of maxKb at a random
\* angle when at the centre, else the impulse radially outward
KnockbackDisplacement(enemy, cx, cy, kRadius, maxKb, random) ==
    LET dxc == enemy.x - cx
        dyc == enemy.y - cy
        dist == Hypot(dxc, dyc)
        forward == KnockbackForward(enemy)
        fx == forward[1]
        fy == forward[2]
        len == IF Hypot(fx, fy) = 0 THEN 1 ELSE Hypot(fx, fy)
    IN IF fx # 0 \/ fy # 0
       THEN <<-Trunc(fx * maxKb * (kRadius - dist), len * kRadius),
              -Trunc(fy * maxKb * (kRadius - dist), len * kRadius)>>
       ELSE IF dxc = 0 /\ dyc = 0
       THEN <<Trunc(CosQuarter(random.angle) * maxKb, 4),
              Trunc(SinQuarter(random.angle) * maxKb, 4)>>
       ELSE <<Trunc(dxc * maxKb * (kRadius - dist), dist * kRadius),
              Trunc(dyc * maxKb * (kRadius - dist), dist * kRadius)>>

\* one iteration of "for (const enemy of gameState.enemies)" of the knockback
KnockbackStep(gs, projectile, kRadius, maxKb, i) ==
    LET id == gs.enemies[i]
        enemy == gs.obj[id]
        dxc == enemy.x - projectile.targetX
        dyc == enemy.y - projectile.targetY
        push == KnockbackDisplacement(enemy, projectile.targetX, projectile.targetY,
                                      kRadius, maxKb, gs.mathRandom)
    IN IF enemy.isMarkedDead \/ dxc * dxc + dyc * dyc >= kRadius * kRadius
       THEN gs
       ELSE Emit([gs EXCEPT !.obj[id].x = @ + push[1], !.obj[id].y = @ + push[2]],
                 Event("knockback", projectile.id, id,
                       Trunc(maxKb * (kRadius - Hypot(dxc, dyc)), kRadius)))

RECURSIVE KnockbackFrom(_, _, _, _, _)
KnockbackFrom(gs, projectile, kRadius, maxKb, i) ==
    IF i > Len(gs.enemies) THEN gs
    ELSE KnockbackFrom(KnockbackStep(gs, projectile, kRadius, maxKb, i),
                       projectile, kRadius, maxKb, i + 1)

\* applyKnockbackImpact(gameState, projectile, cfg, aoeRadius)
applyKnockbackImpact(gs, projectile, cfg, aoeRadius) ==
    IF ~cfg.enabled THEN gs
    ELSE KnockbackFrom(gs, projectile, KnockbackRadius(aoeRadius),
                       KnockbackMax(cfg, KnockbackRadius(aoeRadius)), 1)

\* applyExplosionImpact(gameState, projectile, cfg, aoeRadius): particles, a
\* decal and a flash sized by (cfg.radiusPixelsOverride ?? aoeRadius) || 80
applyExplosionImpact(gs, projectile, cfg, aoeRadius) ==
    LET exRadiusCandidate == IF "radiusPixelsOverride" \in DOMAIN cfg
                             THEN cfg.radiusPixelsOverride ELSE aoeRadius
        exRadius == IF exRadiusCandidate # 0 THEN exRadiusCandidate ELSE 80
    IN IF ~cfg.enabled THEN gs
       ELSE Emit(gs, Event("explosion", projectile.id, 0, exRadius))

\* applyImpact running the chain before the knockback
applyImpactChainFirst(gs, projectile, aoeRadius) ==
    LET effects == projectile.effects
        exploded == IF "explosion" \in DOMAIN effects
                    THEN applyExplosionImpact(gs, projectile, effects.explosion, aoeRadius)
                    ELSE gs
        chained == IF "chain" \in DOMAIN effects
                   THEN applyChainImpact(exploded, projectile, effects.chain)
                   ELSE exploded
        knocked == IF "knockback" \in DOMAIN effects
                   THEN applyKnockbackImpact(chained, projectile, effects.knockback, aoeRadius)
                   ELSE chained
        clustered == IF "cluster" \in DOMAIN effects
                     THEN applyClusterImpact(knocked, projectile, effects.cluster)
                     ELSE knocked
    IN IF IsNull(effects) THEN gs
       ELSE IF "aftershock" \in DOMAIN effects
       THEN applyAftershockImpact(clustered, projectile, effects.aftershock, aoeRadius)
       ELSE clustered

\* EffectsRegistry.applyImpact: explosion, knockback, cluster, chain, aftershock
applyImpact(gs, projectile, aoeRadius) ==
    LET effects == projectile.effects
        exploded == IF "explosion" \in DOMAIN effects
                    THEN applyExplosionImpact(gs, projectile, effects.explosion, aoeRadius)
                    ELSE gs
        knocked == IF "knockback" \in DOMAIN effects
                   THEN applyKnockbackImpact(exploded, projectile, effects.knockback, aoeRadius)
                   ELSE exploded
        clustered == IF "cluster" \in DOMAIN effects
                     THEN applyClusterImpact(knocked, projectile, effects.cluster)
                     ELSE knocked
        chained == IF "chain" \in DOMAIN effects
                   THEN applyChainImpact(clustered, projectile, effects.chain)
                   ELSE clustered
    IN IF IsNull(effects) THEN gs
       ELSE IF "aftershock" \in DOMAIN effects
       THEN applyAftershockImpact(chained, projectile, effects.aftershock, aoeRadius)
       ELSE chained

\* ------------------------------------------------------------------------
\* CombatSystem.tick
\* ------------------------------------------------------------------------
\* Math.PI in the unit of tower headings: 1/21296 of a turn, so that the
\* eighth of a turn and three successive elevenths of it are whole
AngleHalfTurn == 10648

\* Math.atan2(dy, dx) for vectors along the axes and the diagonals
Atan2(dy, dx) ==
    CASE dy = 0 /\ dx >= 0 -> 0
      [] dy = 0 /\ dx < 0 -> AngleHalfTurn
      [] dx = 0 /\ dy > 0 -> AngleHalfTurn \div 2
      [] dx = 0 /\ dy < 0 -> -(AngleHalfTurn \div 2)
      [] dx = dy /\ dx > 0 -> AngleHalfTurn \div 4
      [] dx = dy /\ dx < 0 -> -3 * (AngleHalfTurn \div 4)
      [] dx = -dy /\ dx > 0 -> -(AngleHalfTurn \div 4)
      [] dx = -dy /\ dx < 0 -> 3 * (AngleHalfTurn \div 4)

\* normalizeAngle(angle): into -PI..PI
RECURSIVE normalizeAngle(_)
normalizeAngle(angle) ==
    IF angle > AngleHalfTurn THEN normalizeAngle(angle - 2 * AngleHalfTurn)
    ELSE IF angle < -AngleHalfTurn THEN normalizeAngle(angle + 2 * AngleHalfTurn)
    ELSE angle

\* "rotate toward target if tower supports rotation":
\* rotationRadians += diff * Math.min(1, deltaSeconds * 8)
RotateTowardTarget(gs, tower, targetEnemy, deltaTicks) ==
    IF targetEnemy # 0 /\ "rotationRadians" \in DOMAIN tower
    THEN LET dx == gs.obj[targetEnemy].x - tower.x
             dy == gs.obj[targetEnemy].y - tower.y
             desired == Atan2(dy, dx)
             diff == normalizeAngle(desired - tower.rotationRadians)
         IN [tower EXCEPT !.rotationRadians =
                @ + Trunc(diff * Min2(TicksPerSecond, deltaTicks * 8), TicksPerSecond)]
    ELSE tower

\* TowerStep firing without resetting the cooldown
TowerStepNoReset(gs, mode, i, deltaTicks) ==
    LET tower == gs.towers[i]
        cooled == tower.cooldownSeconds - deltaTicks
        targetEnemy == chooseTargetByMode(mode, tower, gs)
        aimed == [tower EXCEPT !.cooldownSeconds = cooled, !.currentTarget = targetEnemy]
    IN IF cooled <= 0 /\ targetEnemy # 0
       THEN Emit([gs EXCEPT
                    !.towers[i] = aimed,
                    !.projectiles = Append(@,
                        ProjectileEntity(gs.nextProjectileId, tower.x, tower.y,
                                         gs.obj[targetEnemy].x, gs.obj[targetEnemy].y,
                                         tower.damagePerShot, tower.towerTypeKey,
                                         targetEnemy, tower.splash, tower.projectileEffects)),
                    !.nextProjectileId = @ + 1],
                 Event("fire", gs.nextProjectileId, targetEnemy, i))
       ELSE [gs EXCEPT !.towers[i] = aimed]

\* one iteration of "for (const tower of gameState.towers)"
TowerStep(gs, mode, i, deltaTicks) ==
    LET tower == gs.towers[i]
        cooled == tower.cooldownSeconds - deltaTicks
        targetEnemy == chooseTargetByMode(mode, tower, gs)
        aimed == RotateTowardTarget(
                    gs, [tower EXCEPT !.cooldownSeconds = cooled, !.currentTarget = targetEnemy],
                    targetEnemy, deltaTicks)
    IN IF cooled <= 0 /\ targetEnemy # 0
       THEN Emit([gs EXCEPT
                    !.towers[i] = [aimed EXCEPT
                                     !.cooldownSeconds = CooldownTicks(tower.attacksPerSecond)],
                    !.projectiles = Append(@,
                        ProjectileEntity(gs.nextProjectileId, tower.x, tower.y,
                                         gs.obj[targetEnemy].x, gs.obj[targetEnemy].y,
                                         tower.damagePerShot, tower.towerTypeKey,
                                         targetEnemy, tower.splash, tower.projectileEffects)),
                    !.nextProjectileId = @ + 1],
                 Event("fire", gs.nextProjectileId, targetEnemy, i))
       ELSE [gs EXCEPT !.towers[i] = aimed]

RECURSIVE TowersFrom(_, _, _, _)
TowersFrom(gs, mode, i, deltaTicks) ==
    IF i > Len(gs.towers) THEN gs
    ELSE TowersFrom(TowerStep(gs, mode, i, deltaTicks), mode, i + 1, deltaTicks)

\* projectile.effects after the fallback to the tower type's configuration
EffectsWithFallback(projectile) ==
    IF IsNull(projectile.effects)
    THEN towersByTypeKey[projectile.towerTypeKey].projectileEffects
    ELSE projectile.effects

\* Impact with the direct hit not asking whether the target is marked dead
ImpactOnMarkedDead(gs, i) ==
    LET projectile == gs.projectiles[i]
        AOE_RADIUS == projectile.aoe
        begun == Emit(gs, Event("impact", projectile.id, projectile.targetEnemy, AOE_RADIUS))
        damaged ==
            IF AOE_RADIUS > 0
            THEN AoeSweepFrom(begun, projectile, AOE_RADIUS, 1)
            ELSE IF projectile.targetEnemy # 0
            THEN DirectHit(begun, projectile)
            ELSE begun
        withEffects == [projectile EXCEPT !.effects = EffectsWithFallback(projectile)]
        affected == applyImpact([damaged EXCEPT !.projectiles[i] = withEffects],
                                withEffects, AOE_RADIUS)
    IN [affected EXCEPT !.projectiles[i].isComplete = TRUE]

\* the branch "if (projectile.travelProgress >= 1)": damage path, impact
\* effects, completion
Impact(gs, i) ==
    LET projectile == gs.projectiles[i]
        AOE_RADIUS == projectile.aoe
        begun == Emit(gs, Event("impact", projectile.id, projectile.targetEnemy, AOE_RADIUS))
        damaged ==
            IF AOE_RADIUS > 0
            THEN AoeSweepFrom(begun, projectile, AOE_RADIUS, 1)
            ELSE IF projectile.targetEnemy # 0 /\ ~gs.obj[projectile.targetEnemy].isMarkedDead
            THEN DirectHit(begun, projectile)
            ELSE begun
        withEffects == [projectile EXCEPT !.effects = EffectsWithFallback(projectile)]
        affected == applyImpact([damaged EXCEPT !.projectiles[i] = withEffects],
                                withEffects, AOE_RADIUS)
    IN [affected EXCEPT !.projectiles[i].isComplete = TRUE]

\* projectile._overrideLerpSpeed ?? gameState.configuration.projectileLerpSpeedPerSecond
LerpSpeed(projectile) ==
    IF "overrideLerpSpeed" \in DOMAIN projectile THEN projectile.overrideLerpSpeed
    ELSE projectileLerpSpeedPerSecond

\* ProjectileStep counting the progress of each tick from 0
ProjectileStepRestarts(gs, i, deltaTicks) ==
    LET projectile == gs.projectiles[i]
        progress == deltaTicks * LerpSpeed(projectile)
        travelled == Emit([gs EXCEPT !.projectiles[i] =
                             [projectile EXCEPT !.travelProgress = progress,
                                                !.effects = EffectsWithFallback(projectile)]],
                          Event("travel", projectile.id, 0, progress))
    IN IF progress >= TicksPerSecond THEN Impact(travelled, i) ELSE travelled

\* one iteration of "for (const projectile of gameState.projectiles)"
ProjectileStep(gs, i, deltaTicks) ==
    LET projectile == gs.projectiles[i]
        progress == projectile.travelProgress + deltaTicks * LerpSpeed(projectile)
        travelled == Emit([gs EXCEPT !.projectiles[i] =
                             [projectile EXCEPT !.travelProgress = progress,
                                                !.effects = EffectsWithFallback(projectile)]],
                          Event("travel", projectile.id, 0, progress))
    IN IF progress >= TicksPerSecond THEN Impact(travelled, i) ELSE travelled

\* the projectile pass as forEach would run it: projectiles pushed during
\* the pass are left for the next frame
RECURSIVE ProjectilesFromForEach(_, _, _)
ProjectilesFromForEach(gs, i, deltaTicks) ==
    IF i > Len(gs.projectiles) THEN gs
    ELSE IF \E k \in DOMAIN gs.trace : /\ gs.trace[k].kind = "spawn"
                                      /\ gs.trace[k].amount = gs.projectiles[i].id
    THEN gs
    ELSE ProjectilesFromForEach(ProjectileStep(gs, i, deltaTicks), i + 1, deltaTicks)

RECURSIVE ProjectilesFrom(_, _, _)
ProjectilesFrom(gs, i, deltaTicks) ==
    IF i > Len(gs.projectiles) THEN gs
    ELSE ProjectilesFrom(ProjectileStep(gs, i, deltaTicks), i + 1, deltaTicks)

\* CleanupEnemiesFrom crediting the reward of every enemy it removes,
\* leaked ones included
RECURSIVE CleanupEnemiesRewardsRemoved(_, _, _)
CleanupEnemiesRewardsRemoved(gs, i, kept) ==
    IF i > Len(gs.enemies) THEN [gs EXCEPT !.enemies = kept]
    ELSE LET id == gs.enemies[i]
             enemy == gs.obj[id]
         IN IF enemy.hitPoints <= 0 \/ enemy.isMarkedDead
            THEN CleanupEnemiesRewardsRemoved(
                    Emit([gs EXCEPT !.money = @ + enemy.rewardMoney],
                         Event("reward", 0, id, enemy.rewardMoney)),
                    i + 1, kept)
            ELSE CleanupEnemiesRewardsRemoved(gs, i + 1, Append(kept, id))

\* gameState.enemies.filter(...) of the cleanup, with the reward credit
RECURSIVE CleanupEnemiesFrom(_, _, _)
CleanupEnemiesFrom(gs, i, kept) ==
    IF i > Len(gs.enemies) THEN [gs EXCEPT !.enemies = kept]
    ELSE LET id == gs.enemies[i]
             enemy == gs.obj[id]
         IN IF enemy.hitPoints <= 0
            THEN CleanupEnemiesFrom(
                    Emit([gs EXCEPT !.money = @ + enemy.rewardMoney],
                         Event("reward", 0, id, enemy.rewardMoney)),
                    i + 1, kept)
            ELSE CleanupEnemiesFrom(gs, i + 1,
                    IF enemy.isMarkedDead THEN kept ELSE Append(kept, id))

\* gameState.projectiles.filter((p) => !p._isComplete)
RECURSIVE ProjectilesLeft(_, _)
ProjectilesLeft(projectiles, i) ==
    IF i > Len(projectiles) THEN << >>
    ELSE IF projectiles[i].isComplete THEN ProjectilesLeft(projectiles, i + 1)
    ELSE << projectiles[i] >> \o ProjectilesLeft(projectiles, i + 1)

\* "if (enemy._prevX === undefined) enemy._prevX = enemy.x" and the same for
\* y, for every enemy of the list
RECURSIVE CachePrevFrom(_, _)
CachePrevFrom(gs, i) ==
    IF i > Len(gs.enemies) THEN gs
    ELSE LET id == gs.enemies[i]
             enemy == gs.obj[id]
         IN CachePrevFrom(
               IF "prevX" \in DOMAIN enemy THEN gs
               ELSE [gs EXCEPT !.obj[id] = enemy @@ [prevX |-> enemy.x, prevY |-> enemy.y]],
               i + 1)

\* "enemy._prevX = enemy.x; enemy._prevY = enemy.y" for every enemy of the list
RECURSIVE StorePrevFrom(_, _)
StorePrevFrom(gs, i) ==
    IF i > Len(gs.enemies) THEN gs
    ELSE LET id == gs.enemies[i]
             enemy == gs.obj[id]
         IN StorePrevFrom(
               [gs EXCEPT !.obj[id] =
                   [prevX |-> enemy.x, prevY |-> enemy.y] @@ enemy],
               i + 1)

\* CombatSystemTick without the filter of completed projectiles
CombatSystemTickKeepsCompleted(gs, mode, deltaTicks) ==
    LET cached == CachePrevFrom(gs, 1)
        fired == TowersFrom(cached, mode, 1, deltaTicks)
        flown == ProjectilesFrom(fired, 1, deltaTicks)
    IN StorePrevFrom(CleanupEnemiesFrom(flown, 1, << >>), 1)

\* CombatSystem.tick(gameState, deltaSeconds)
CombatSystemTick(gs, mode, deltaTicks) ==
    LET cached == CachePrevFrom(gs, 1)
        fired == TowersFrom(cached, mode, 1, deltaTicks)
        flown == ProjectilesFrom(fired, 1, deltaTicks)
        cleaned == CleanupEnemiesFrom(flown, 1, << >>)
    IN StorePrevFrom([cleaned EXCEPT !.projectiles = ProjectilesLeft(@, 1)], 1)

\* ------------------------------------------------------------------------
\* The game: state after construction and the operations on it
\* ------------------------------------------------------------------------
\* towerDamageMultiplier values entered in the admin panel, in halves
DamageMultipliers == {3}

\* number of trace entries of one kind about one projectile / one enemy
CountEvents(trace, kind, projectile) ==
    Cardinality({k \in 1..Len(trace) :
                    trace[k].kind = kind /\ trace[k].projectile = projectile})

CountEnemyEvents(trace, kind, enemy) ==
    Cardinality({k \in 1..Len(trace) : trace[k].kind = kind /\ trace[k].enemy = enemy})

\* const gameState = {...} followed by initialize()
InitialGameState ==
    [enemies |-> << >>, obj |-> << >>, towers |-> << >>, projectiles |-> << >>,
     nextProjectileId |-> 1,
     money |-> startingMoney, lives |-> startingLives,
     modifiers |-> [towerDamageMultiplier |-> MultDen],
     scheduledEffects |-> << >>,
     performanceNow |-> 0,
     mathRandom |-> [angle |-> 0, unit |-> 0],
     trace |-> << >>]

Init ==
    /\ gameState = InitialGameState
    /\ targetingMode = "closest"
    /\ clock = 0
    /\ impactCount = << >>
    /\ leaked = << >>

\* UpdateOrder with combat run before movement
UpdateOrderCombatFirst(gs, mode, deltaTicks) ==
    MovementSystemTick(CombatSystemTick(gs, mode, deltaTicks), deltaTicks)

\* update(deltaSeconds): the order of the two system ticks within a frame
UpdateOrder(gs, mode, deltaTicks) ==
    CombatSystemTick(MovementSystemTick(gs, deltaTicks), mode, deltaTicks)

\* bookkeeping of the per-projectile and per-enemy counts after an operation
Tally(gs) ==
    /\ impactCount' = [id \in 1..(gs.nextProjectileId - 1) |->
                          (IF id \in DOMAIN impactCount THEN impactCount[id] ELSE 0)
                          + CountEvents(gs.trace, "impact", id)]
    /\ leaked' = [id \in 1..Len(gs.obj) |->
                     (IF id \in DOMAIN leaked THEN leaked[id] ELSE 0)
                     + CountEnemyEvents(gs.trace, "leak", id)]

\* what is left of an enemy object once nothing refers to it any more
Collected ==
    [hitPoints |-> 0, movementSpeedCellsPerSecond |-> 0, rewardMoney |-> 0,
     x |-> 0, y |-> 0, currentWaypointIndex |-> 0,
     isMarkedDead |-> TRUE, reachedEndOfPath |-> FALSE,
     lastDamageAmount |-> 0, maximumHitPoints |-> 0]

Range(seq) == {seq[i] : i \in DOMAIN seq}

\* enemy ids some live collection, projectile or tower still refers to
Referenced(gs) ==
    Range(gs.enemies)
      \cup {gs.projectiles[i].targetEnemy : i \in DOMAIN gs.projectiles}
      \cup {gs.towers[i].currentTarget : i \in DOMAIN gs.towers}

\* garbage collection: an object that had left gameState.enemies before the
\* frame began and that nothing refers to after it is reclaimed
Collect(before, gs) ==
    [gs EXCEPT !.obj = [id \in DOMAIN gs.obj |->
                          IF id \notin Range(before.enemies) /\ id \notin Referenced(gs)
                          THEN Collected ELSE gs.obj[id]]]

\* animationFrame -> update(deltaSeconds)
Update(deltaFrames) ==
    /\ clock + deltaFrames <= MaxClock
    /\ gameState' = Collect(gameState,
                            UpdateOrder([gameState EXCEPT
                                           !.trace = << Event("update", 0, 0, 0) >>],
                                        targetingMode, deltaFrames * FrameTicks))
    /\ clock' = clock + deltaFrames
    /\ Tally(gameState')
    /\ UNCHANGED targetingMode

\* admin panel, enemy builder: submit
AdminSpawnEnemy(statBlock) ==
    /\ Len(gameState.obj) < MaxEnemies
    /\ LET enemy == EnemyEntity(statBlock)
           id == Len(gameState.obj) + 1
       IN gameState' = [gameState EXCEPT !.obj = Append(@, enemy),
                                         !.enemies = Append(@, id),
                                         !.trace = << >>]
    /\ Tally(gameState')
    /\ UNCHANGED << targetingMode, clock >>

\* tryPlaceSelectedTowerAtCell(gridX, gridY)
PlaceTower(towerTypeKey, cell) ==
    LET def == towersByTypeKey[towerTypeKey]
        pixel == FootprintCenter(cell)
    IN /\ Len(gameState.towers) < MaxTowers
       /\ clock = 0 /\ Len(gameState.obj) = 0
       /\ \A i \in 1..Len(gameState.towers) :
             ~(gameState.towers[i].x = pixel.x /\ gameState.towers[i].y = pixel.y)
       /\ gameState.money >= def.buildCost
       /\ gameState' = [gameState EXCEPT
                          !.money = @ - def.buildCost,
                          !.towers = Append(@, TowerEntity(def, pixel, towerTypeKey)),
                          !.trace = << >>]
       /\ Tally(gameState')
       /\ UNCHANGED << targetingMode, clock >>

\* admin panel, global modifiers: submit
SetDamageMultiplier(m) ==
    /\ clock = 0 /\ Len(gameState.obj) = 0
    /\ gameState' = [gameState EXCEPT !.modifiers.towerDamageMultiplier = Max2(0, m),
                                      !.trace = << >>]
    /\ Tally(gameState')
    /\ UNCHANGED << targetingMode, clock >>

\* the targeting mode select of the user interface
SelectTargetingMode(mode) ==
    /\ targetingMode' = mode
    /\ UNCHANGED << gameState, clock, impactCount, leaked >>

\* MovementSystem.tick(gameState, deltaSeconds) called on its own
MovementTickOnly(deltaFrames) ==
    /\ clock + deltaFrames <= MaxClock
    /\ gameState' = MovementSystemTick(
                        [gameState EXCEPT !.trace = << Event("movementTick", 0, 0, deltaFrames) >>],
                        deltaFrames * FrameTicks)
    /\ clock' = clock + deltaFrames
    /\ Tally(gameState')
    /\ UNCHANGED targetingMode

\* CombatSystem.tick(gameState, deltaSeconds) called on its own
CombatTickOnly(deltaFrames) ==
    /\ clock + deltaFrames <= MaxClock
    /\ gameState' = Collect(gameState,
                            CombatSystemTick(
                                [gameState EXCEPT
                                   !.trace = << Event("combatTick", 0, 0, 0) >>],
                                targetingMode, deltaFrames * FrameTicks))
    /\ clock' = clock + deltaFrames
    /\ Tally(gameState')
    /\ UNCHANGED targetingMode

Next ==
    \/ \E deltaFrames \in DeltaFrames : Update(deltaFrames)
    \/ \E statBlock \in EnemyStatBlocks : AdminSpawnEnemy(statBlock)
    \/ \E towerTypeKey \in FrameTowerTypeKeys, cell \in TowerCells : PlaceTower(towerTypeKey, cell)
    \/ \E m \in DamageMultipliers : SetDamageMultiplier(m)

Spec == Init /\ [][Next]_vars

\* the two system ticks called separately, in any order and any number of
\* times; the combat tick with frames of 1/8 s
NextTicks ==
    \/ \E deltaFrames \in DeltaFrames : MovementTickOnly(deltaFrames)
    \/ \E deltaFrames \in {1} : CombatTickOnly(deltaFrames)
    \/ \E statBlock \in EnemyStatBlocks : AdminSpawnEnemy(statBlock)
    \/ \E cell \in TowerCells : PlaceTower("basic", cell)

SpecTicks == Init /\ [][NextTicks]_vars

\* ------------------------------------------------------------------------
\* chooseTargetByMode on its own: one tower, enemy collections of every
\* shape, every targeting mode
\* ------------------------------------------------------------------------
RECURSIVE SeqsUpTo(_, _)
SeqsUpTo(S, n) ==
    IF n = 0 THEN { << >> }
    ELSE LET shorter == SeqsUpTo(S, n - 1)
         IN shorter \cup { Append(q, e) : q \in { r \in shorter : Len(r) = n - 1 }, e \in S }

TargetTowerPixel == [x |-> 100, y |-> 100]

\* enemies around the tower of range 90: at 50 px (three of them, tied), on
\* the range boundary, out of range, and marked dead next to the tower
TargetEnemyShapes ==
    { [x |-> 150, y |-> 100, currentWaypointIndex |-> 1, hitPoints |-> 30, isMarkedDead |-> FALSE],
      [x |-> 100, y |-> 150, currentWaypointIndex |-> 2, hitPoints |-> 10, isMarkedDead |-> FALSE],
      [x |-> 130, y |-> 140, currentWaypointIndex |-> 1, hitPoints |-> 10, isMarkedDead |-> FALSE],
      [x |-> 190, y |-> 100, currentWaypointIndex |-> 2, hitPoints |-> 30, isMarkedDead |-> FALSE],
      [x |-> 220, y |-> 100, currentWaypointIndex |-> 3, hitPoints |-> 50, isMarkedDead |-> FALSE],
      [x |-> 130, y |-> 100, currentWaypointIndex |-> 3, hitPoints |-> 5, isMarkedDead |-> TRUE] }

\* an enemy somewhere along its life: position, progress, health and flag
EnemyInShape(shape) ==
    [EnemyEntity([hitPoints |-> shape.hitPoints, movementSpeedCellsPerSecond |-> 2,
                  rewardMoney |-> 8])
       EXCEPT !.x = shape.x, !.y = shape.y,
              !.currentWaypointIndex = shape.currentWaypointIndex,
              !.isMarkedDead = shape.isMarkedDead]

SelectableModes == TargetingModes \cup {"nearest"}

InitTarget ==
    /\ \E shapes \in SeqsUpTo(TargetEnemyShapes, MaxTargetEnemies) :
          gameState = [InitialGameState EXCEPT
                         !.obj = [i \in 1..Len(shapes) |-> EnemyInShape(shapes[i])],
                         !.enemies = [i \in 1..Len(shapes) |-> i],
                         !.towers = << TowerEntity(towersByTypeKey.basic, TargetTowerPixel,
                                                   "basic") >>]
    /\ targetingMode = "closest"
    /\ clock = 0
    /\ impactCount = << >>
    /\ leaked = << >>

\* the targeting step of the tower loop: tower.currentTarget = chooseTargetByMode(...)
AcquireTarget ==
    /\ clock = 0
    /\ gameState' = [gameState EXCEPT !.towers[1].currentTarget =
                        chooseTargetByMode(targetingMode, gameState.towers[1], gameState)]
    /\ clock' = 1
    /\ UNCHANGED << targetingMode, impactCount, leaked >>

NextTarget ==
    \/ \E mode \in SelectableModes : clock = 0 /\ SelectTargetingMode(mode)
    \/ AcquireTarget

SpecTarget == InitTarget /\ [][NextTarget]_vars

\* ------------------------------------------------------------------------
\* applyChainImpact on its own: one projectile at its impact point, enemy
\* layouts and chain configurations of every shape
\* ------------------------------------------------------------------------
ChainImpactPixel == [x |-> 100, y |-> 100]

\* enemies on a line through the impact point: at it, 60 px away (two of
\* them), 130 px away (within jumpRadius of the 60 px ones only), one with
\* no health left and one marked dead
ChainEnemyShapes ==
    { [x |-> 100, y |-> 100, currentWaypointIndex |-> 1, hitPoints |-> 150, isMarkedDead |-> FALSE],
      [x |-> 160, y |-> 100, currentWaypointIndex |-> 1, hitPoints |-> 150, isMarkedDead |-> FALSE],
      [x |-> 160, y |-> 100, currentWaypointIndex |-> 1, hitPoints |-> 10, isMarkedDead |-> FALSE],
      [x |-> 230, y |-> 100, currentWaypointIndex |-> 1, hitPoints |-> 150, isMarkedDead |-> FALSE],
      [x |-> 100, y |-> 100, currentWaypointIndex |-> 1, hitPoints |-> 0, isMarkedDead |-> FALSE],
      [x |-> 130, y |-> 100, currentWaypointIndex |-> 1, hitPoints |-> 150, isMarkedDead |-> TRUE] }

ChainConfigs ==
    { TeslaChain,
      [TeslaChain EXCEPT !.maxJumps = 0],
      [TeslaChain EXCEPT !.maxJumps = 2, !.damageFalloff = 10, !.preferUntargeted = TRUE],
      [TeslaChain EXCEPT !.damageFalloff = 0],
      [TeslaChain EXCEPT !.jumpRadius = 60, !.damageFalloff = 5],
      [TeslaChain EXCEPT !.enabled = FALSE] }

\* damagePerHit of the projectile and towerDamageMultiplier (in halves)
ChainDamages == { [damagePerHit |-> 100, multiplier |-> 2],
                  [damagePerHit |-> 100, multiplier |-> 3],
                  [damagePerHit |-> 1, multiplier |-> 2] }

InitChain ==
    /\ \E shapes \in SeqsUpTo(ChainEnemyShapes, MaxChainEnemies), cfg \in ChainConfigs,
          dmg \in ChainDamages, targetEnemy \in {0, 1} :
          /\ targetEnemy <= Len(shapes)
          /\ gameState = [InitialGameState EXCEPT
                            !.obj = [i \in 1..Len(shapes) |-> EnemyInShape(shapes[i])],
                            !.enemies = [i \in 1..Len(shapes) |-> i],
                            !.projectiles =
                               << ProjectileEntity(1, 20, 60, ChainImpactPixel.x,
                                                   ChainImpactPixel.y, dmg.damagePerHit,
                                                   "tesla", targetEnemy, 0,
                                                   [chain |-> cfg]) >>,
                            !.nextProjectileId = 2,
                            !.modifiers.towerDamageMultiplier = dmg.multiplier]
    /\ targetingMode = "closest"
    /\ clock = 0
    /\ impactCount = << >>
    /\ leaked = << >>

\* EffectsRegistry.applyImpact(gameState, projectile, effects, aoeRadius) for
\* the projectile at its impact point
ChainImpact ==
    /\ clock = 0
    /\ gameState' = applyImpact([gameState EXCEPT !.trace = << >>],
                                gameState.projectiles[1], gameState.projectiles[1].aoe)
    /\ clock' = 1
    /\ UNCHANGED << targetingMode, impactCount, leaked >>

NextChain == ChainImpact

SpecChain == InitChain /\ [][NextChain]_vars

\* ------------------------------------------------------------------------
\* Impact effects in whole frames: one projectile in flight whose effects
\* descriptor holds a cluster and/or an aftershock configuration
\* ------------------------------------------------------------------------
MaxEffectEnemies == 1

\* aftershock configurations; the second is the one the shockwave upgrade
\* unlocks (delay 600 ms held as 55 ticks)
AftershockConfigs ==
    { [enabled |-> TRUE, delayMs |-> 0, damageMultiplier |-> 5],
      ShockwaveAftershock,
      [enabled |-> FALSE, delayMs |-> 0, damageMultiplier |-> 5] }

\* a cluster configuration in the shape of the splash tower's
ClusterConfig(count, childSpeedScale, childAoe, childEffects) ==
    [enabled |-> TRUE, count |-> count, spread |-> 360,
     childDistance |-> 40, childDistanceJitter |-> 20,
     childSpeedScale |-> childSpeedScale, childDamageScale |-> 35,
     childAoe |-> childAoe, childEffects |-> childEffects]

\* cluster configurations: childEffects an explosion, unset, or a cluster
ClusterConfigs ==
    { ClusterConfig(2, 4, 40, [explosion |-> [enabled |-> TRUE]]),
      ClusterConfig(0, 6, 40, NullEffects),
      ClusterConfig(1, 4, 0,
                    [cluster |-> ClusterConfig(2, 4, 40, NullEffects)]),
      [ClusterConfig(2, 4, 40, NullEffects) EXCEPT !.enabled = FALSE] }

EffectDescriptors ==
    {[aftershock |-> cfg] : cfg \in AftershockConfigs}
      \cup {[cluster |-> cfg] : cfg \in ClusterConfigs}
      \cup {[cluster |-> ClusterConfig(2, 4, 40, NullEffects),
             aftershock |-> [enabled |-> TRUE, delayMs |-> 0, damageMultiplier |-> 5]]}

\* values Math.random() returns to applyClusterImpact: the base angle in
\* quarter turns, the jitter draw in halves
RandomDraws == [angle : 0..3, unit : 0..1]

\* enemies just spawned, and projectile 1 fired at the first of them from the
\* near tower cell; every other projectile of this specification descends
\* from projectile 1
InitEffects ==
    \E blocks \in SeqsUpTo(EnemyStatBlocks, MaxEffectEnemies) \ {<< >>},
       effects \in EffectDescriptors, aoe \in {0, 40} :
        LET origin == FootprintCenter([x |-> 0, y |-> 1])
        IN /\ gameState =
                 [InitialGameState EXCEPT
                    !.obj = [i \in 1..Len(blocks) |-> EnemyEntity(blocks[i])],
                    !.enemies = [i \in 1..Len(blocks) |-> i],
                    !.projectiles =
                       << ProjectileEntity(1, origin.x, origin.y,
                                           Waypoint(0).x, Waypoint(0).y,
                                           28, "basic", 1, aoe, effects) >>,
                    !.nextProjectileId = 2]
           /\ targetingMode = "closest"
           /\ clock = 0
           /\ impactCount = << 0 >>
           /\ leaked = [i \in 1..Len(blocks) |-> 0]

\* animationFrame(timestamp): update(deltaSeconds) at time performance.now(),
\* with the values Math.random() hands out during the frame
AnimationFrame(deltaFrames, random) ==
    /\ clock + deltaFrames <= MaxClock
    /\ gameState' = Collect(gameState,
                            UpdateOrder([gameState EXCEPT
                                           !.trace = << Event("update", 0, 0, 0) >>,
                                           !.performanceNow = (clock + deltaFrames) * FrameTicks,
                                           !.mathRandom = random],
                                        targetingMode, deltaFrames * FrameTicks))
    /\ clock' = clock + deltaFrames
    /\ Tally(gameState')
    /\ UNCHANGED targetingMode

NextEffects ==
    \E deltaFrames \in DeltaFrames, random \in RandomDraws :
        AnimationFrame(deltaFrames, random)

SpecEffects == InitEffects /\ [][NextEffects]_vars

\* ------------------------------------------------------------------------
\* Whole frames with sniper towers, whose cooldown of 1/1.6 s lets one tower
\* fire more than once within the frames explored
\* ------------------------------------------------------------------------
NextCooldown ==
    \/ \E deltaFrames \in DeltaFrames : Update(deltaFrames)
    \/ \E statBlock \in EnemyStatBlocks : AdminSpawnEnemy(statBlock)
    \/ \E cell \in TowerCells : PlaceTower("sniper", cell)

SpecCooldown == Init /\ [][NextCooldown]_vars

\* ------------------------------------------------------------------------
\* The impact branch on its own: one projectile that has reached its impact
\* point, with a knockback configuration, over enemy layouts of every shape
\* ------------------------------------------------------------------------
MaxKnockbackEnemies == 2

KnockbackImpactPixel == [x |-> 100, y |-> 100]

\* enemies around the impact point with the optional fields the handler
\* reads (extra): moving right 20 px from the centre; at the centre, not yet
\* moved; 60 px below the centre, not yet moved; with a velocity pointing
\* down while its last step went right; with a zero velocity and a next
\* waypoint below it; 80 px from the centre; marked dead
KnockbackEnemyShapes ==
    { [x |-> 120, y |-> 100, currentWaypointIndex |-> 1, hitPoints |-> 150, isMarkedDead |-> FALSE,
       extra |-> [prevX |-> 110, prevY |-> 100]],
      [x |-> 100, y |-> 100, currentWaypointIndex |-> 1, hitPoints |-> 150, isMarkedDead |-> FALSE,
       extra |-> [prevX |-> 100, prevY |-> 100]],
      [x |-> 100, y |-> 160, currentWaypointIndex |-> 1, hitPoints |-> 150, isMarkedDead |-> FALSE,
       extra |-> [prevX |-> 100, prevY |-> 160]],
      [x |-> 120, y |-> 100, currentWaypointIndex |-> 1, hitPoints |-> 150, isMarkedDead |-> FALSE,
       extra |-> [vx |-> 0, vy |-> 3, prevX |-> 110, prevY |-> 100]],
      [x |-> 100, y |-> 140, currentWaypointIndex |-> 1, hitPoints |-> 150, isMarkedDead |-> FALSE,
       extra |-> [vx |-> 0, vy |-> 0, nextWaypoint |-> [x |-> 100, y |-> 180],
                  prevX |-> 90, prevY |-> 140]],
      [x |-> 180, y |-> 100, currentWaypointIndex |-> 1, hitPoints |-> 150, isMarkedDead |-> FALSE,
       extra |-> [prevX |-> 170, prevY |-> 100]],
      [x |-> 120, y |-> 100, currentWaypointIndex |-> 1, hitPoints |-> 150, isMarkedDead |-> TRUE,
       extra |-> [prevX |-> 110, prevY |-> 100]] }

KnockbackConfigs ==
    { [enabled |-> TRUE, maxPx |-> 40],
      [enabled |-> TRUE],
      [enabled |-> TRUE, maxPx |-> -5],
      [enabled |-> FALSE, maxPx |-> 40] }

\* knockback alone, and knockback together with an explosion, a cluster, a chain of jump
\* radius 60 and an aftershock
KnockbackDescriptors ==
    {[knockback |-> cfg] : cfg \in KnockbackConfigs}
      \cup {[explosion |-> [enabled |-> TRUE],
             knockback |-> [enabled |-> TRUE, maxPx |-> 40],
             cluster |-> ClusterConfig(2, 4, 40, NullEffects),
             chain |-> [TeslaChain EXCEPT !.jumpRadius = 60],
             aftershock |-> [enabled |-> TRUE, delayMs |-> 0, damageMultiplier |-> 5]]}

InitKnockback ==
    /\ \E shapes \in SeqsUpTo(KnockbackEnemyShapes, MaxKnockbackEnemies),
          effects \in KnockbackDescriptors, aoe \in {0, 160}, targetEnemy \in {0, 1},
          random \in RandomDraws :
          /\ targetEnemy <= Len(shapes)
          /\ gameState = [InitialGameState EXCEPT
                            !.obj = [i \in 1..Len(shapes) |->
                                        EnemyInShape(shapes[i]) @@ shapes[i].extra],
                            !.enemies = [i \in 1..Len(shapes) |-> i],
                            !.projectiles =
                               << [ProjectileEntity(1, 20, 60, KnockbackImpactPixel.x,
                                                    KnockbackImpactPixel.y, 28, "basic",
                                                    targetEnemy, aoe, effects)
                                     EXCEPT !.travelProgress = TicksPerSecond] >>,
                            !.nextProjectileId = 2,
                            !.mathRandom = random]
    /\ targetingMode = "closest"
    /\ clock = 0
    /\ impactCount = << >>
    /\ leaked = << >>

\* the branch "if (projectile.travelProgress >= 1)" of the combat tick for
\* projectile 1
ProjectileImpact ==
    /\ clock = 0
    /\ gameState' = Impact([gameState EXCEPT !.trace = << >>], 1)
    /\ clock' = 1
    /\ UNCHANGED << targetingMode, impactCount, leaked >>

NextKnockback == ProjectileImpact

SpecKnockback == InitKnockback /\ [][NextKnockback]_vars

\* ------------------------------------------------------------------------
\* The two system ticks called separately while a projectile with a
\* knockback configuration is in flight
\* ------------------------------------------------------------------------
\* the nuke tower's explosion and knockback, a knockback with the default
\* push, and no effects
PushDescriptors ==
    { [explosion |-> [enabled |-> TRUE], knockback |-> [enabled |-> TRUE, maxPx |-> 60]],
      [knockback |-> [enabled |-> TRUE]],
      NullEffects }

\* one enemy just spawned, projectile 1 fired at it from the near tower
\* cell, and no tower or a basic tower on that cell
InitPush ==
    \E blocks \in SeqsUpTo(EnemyStatBlocks, 1) \ {<< >>},
       effects \in PushDescriptors, aoe \in {0, 120}, towerCount \in {0, 1} :
        LET origin == FootprintCenter([x |-> 0, y |-> 1])
        IN /\ gameState =
                 [InitialGameState EXCEPT
                    !.obj = [i \in 1..Len(blocks) |-> EnemyEntity(blocks[i])],
                    !.enemies = [i \in 1..Len(blocks) |-> i],
                    !.towers = [i \in 1..towerCount |->
                                   TowerEntity(towersByTypeKey["basic"], origin, "basic")],
                    !.projectiles =
                       << ProjectileEntity(1, origin.x, origin.y,
                                           Waypoint(0).x, Waypoint(0).y,
                                           8, "basic", 1, aoe, effects) >>,
                    !.nextProjectileId = 2]
           /\ targetingMode = "closest"
           /\ clock = 0
           /\ impactCount = << 0 >>
           /\ leaked = [i \in 1..Len(blocks) |-> 0]

NextPush ==
    \/ \E deltaFrames \in DeltaFrames : MovementTickOnly(deltaFrames)
    \/ \E deltaFrames \in {1} : CombatTickOnly(deltaFrames)
    \/ \E statBlock \in EnemyStatBlocks : AdminSpawnEnemy(statBlock)

SpecPush == InitPush /\ [][NextPush]_vars

\* ------------------------------------------------------------------------
\* Combat ticks of any length for one tower that holds a heading, with
\* enemies standing around it along the axes and the diagonals
\* ------------------------------------------------------------------------
MaxFacingEnemies == 2
MaxFacingTicks == 2

\* 60 px from the tower along an axis or 60 px along both
FacingEnemyShapes ==
    { [x |-> TargetTowerPixel.x + dx, y |-> TargetTowerPixel.y + dy,
       currentWaypointIndex |-> 1, hitPoints |-> 150, isMarkedDead |-> FALSE]
        : dx \in {-60, 0, 60}, dy \in {-60, 0, 60} }
      \ { [x |-> TargetTowerPixel.x, y |-> TargetTowerPixel.y,
           currentWaypointIndex |-> 1, hitPoints |-> 150, isMarkedDead |-> FALSE] }

\* deltaSeconds of a combat tick, in ticks: 0, 1/88 s, 1/22 s, 1/8 s
FacingDeltaTicks == {0, 1, 4, FrameTicks}

\* new TowerEntity(...) sets rotationRadians = 0
InitFacing ==
    /\ \E shapes \in SeqsUpTo(FacingEnemyShapes, MaxFacingEnemies) :
          gameState = [InitialGameState EXCEPT
                         !.obj = [i \in 1..Len(shapes) |-> EnemyInShape(shapes[i])],
                         !.enemies = [i \in 1..Len(shapes) |-> i],
                         !.towers = << TowerEntity(towersByTypeKey["basic"],
                                                   TargetTowerPixel, "basic")
                                         @@ [rotationRadians |-> 0] >>]
    /\ targetingMode = "closest"
    /\ clock = 0
    /\ impactCount = << >>
    /\ leaked = << >>

\* CombatSystem.tick(gameState, deltaSeconds) with deltaSeconds in ticks; the
\* clock counts the calls
CombatTickOf(deltaTicks) ==
    /\ clock < MaxFacingTicks
    /\ gameState' = Collect(gameState,
                            CombatSystemTick(
                                [gameState EXCEPT
                                   !.trace = << Event("combatTick", 0, 0, deltaTicks) >>],
                                targetingMode, deltaTicks))
    /\ clock' = clock + 1
    /\ Tally(gameState')
    /\ UNCHANGED targetingMode

NextFacing == \E deltaTicks \in FacingDeltaTicks : CombatTickOf(deltaTicks)

SpecFacing == InitFacing /\ [][NextFacing]_vars

\* ------------------------------------------------------------------------
\* Whole frames over malformed numbers: the enemy's speed, the projectile's
\* damage and the global damage multiplier are JavaScript values, a number
\* or NaN, Infinity or undefined, and gameState may lack its modifiers
\* ------------------------------------------------------------------------
JsNumber(v) == [tag |-> "number", v |-> v]
JsNaN == [tag |-> "NaN"]
JsInfinity == [tag |-> "Infinity"]
JsUndefined == [tag |-> "undefined"]

\* a * b for values that are not negative; undefined converts to NaN
JsTimes(a, b) ==
    IF a.tag \in {"NaN", "undefined"} \/ b.tag \in {"NaN", "undefined"} THEN JsNaN
    ELSE IF a.tag = "number" /\ b.tag = "number" THEN JsNumber(a.v * b.v)
    ELSE IF (a.tag = "number" /\ a.v = 0) \/ (b.tag = "number" /\ b.v = 0) THEN JsNaN
    ELSE JsInfinity

\* Math.max(0, Math.round(value)) for value = num / den
JsMaxZeroRound(num, den) ==
    IF num.tag = "number" THEN JsNumber(Max2(0, Round(num.v, den))) ELSE num

\* Math.min(value, before) for a number before
JsMin(value, before) ==
    CASE value.tag = "number" -> JsNumber(Min2(value.v, before))
      [] value.tag = "Infinity" -> JsNumber(before)
      [] OTHER -> JsNaN

\* "applied > 0"
JsPositive(value) == value.tag = "number" /\ value.v > 0

\* the speed MovementSystem.tick resolves, in cells per second: the enemy's
\* own when Number.isFinite, else the default of 40 px/s (no other speed
\* field is set), one cell of the grid
ResolvedSpeed(movementSpeedCellsPerSecond) ==
    IF movementSpeedCellsPerSecond.tag = "number" THEN movementSpeedCellsPerSecond.v
    ELSE 40 \div gridCellSize

\* MovementSystem.tick over enemies whose speed is a JavaScript value
MovementSystemTickJs(gs, deltaTicks) ==
    LET resolved == [gs EXCEPT !.obj = [id \in DOMAIN gs.obj |->
                        [gs.obj[id] EXCEPT !.movementSpeedCellsPerSecond = ResolvedSpeed(@)]]]
        moved == MovementSystemTick(resolved, deltaTicks)
    IN [moved EXCEPT !.obj = [id \in DOMAIN moved.obj |->
           [moved.obj[id] EXCEPT !.movementSpeedCellsPerSecond =
                                     gs.obj[id].movementSpeedCellsPerSecond]]]

\* gameState.modifiers.towerDamageMultiplier, undefined when the field is
\* not there
MultiplierRead(gs) ==
    IF "towerDamageMultiplier" \in DOMAIN gs.modifiers
    THEN gs.modifiers.towerDamageMultiplier ELSE JsUndefined

\* Math.max(0, Math.round(damagePerHit * towerDamageMultiplier * typeMultFor))
RawDamageJs(gs, damagePerHit) ==
    JsMaxZeroRound(JsTimes(JsTimes(damagePerHit, MultiplierRead(gs)), JsNumber(typeMultFor)),
                   MultDen)

\* the direct hit; reading a property of the missing gameState.modifiers
\* throws a TypeError
DirectHitJs(gs, projectile) ==
    LET id == projectile.targetEnemy
        before == Max2(0, gs.obj[id].hitPoints)
        applied == JsMin(RawDamageJs(gs, projectile.damagePerHit), before)
    IN IF "modifiers" \notin DOMAIN gs THEN [gs EXCEPT !.threw = TRUE]
       ELSE IF JsPositive(applied)
       THEN ApplyDamage(gs, projectile, id, before, applied.v, "direct")
       ELSE gs

\* one enemy of the AoE sweep: Math.min(before, Math.round(raw * falloff))
AoeHitJs(gs, projectile, id, radius) ==
    LET enemy == gs.obj[id]
        distSq == Sq(enemy.x - projectile.targetX, enemy.y - projectile.targetY)
        before == Max2(0, enemy.hitPoints)
        raw == RawDamageJs(gs, projectile.damagePerHit)
        scaled == IF raw.tag = "number"
                  THEN JsNumber(RoundFalloff(raw.v, distSq, radius)) ELSE raw
        applied == JsMin(scaled, before)
    IN IF enemy.isMarkedDead \/ ~(distSq < radius * radius) THEN gs
       ELSE IF "modifiers" \notin DOMAIN gs THEN [gs EXCEPT !.threw = TRUE]
       ELSE IF JsPositive(applied)
       THEN ApplyDamage(gs, projectile, id, before, applied.v, "aoe")
       ELSE gs

RECURSIVE AoeSweepJsFrom(_, _, _, _)
AoeSweepJsFrom(gs, projectile, radius, i) ==
    IF i > Len(gs.enemies) \/ gs.threw THEN gs
    ELSE AoeSweepJsFrom(AoeHitJs(gs, projectile, gs.enemies[i], radius),
                        projectile, radius, i + 1)

\* the impact branch over JavaScript values; an error leaves the branch
ImpactJs(gs, i) ==
    LET projectile == gs.projectiles[i]
        AOE_RADIUS == projectile.aoe
        begun == Emit(gs, Event("impact", projectile.id, projectile.targetEnemy, AOE_RADIUS))
        damaged ==
            IF AOE_RADIUS > 0
            THEN AoeSweepJsFrom(begun, projectile, AOE_RADIUS, 1)
            ELSE IF projectile.targetEnemy # 0 /\ ~gs.obj[projectile.targetEnemy].isMarkedDead
            THEN DirectHitJs(begun, projectile)
            ELSE begun
        affected == applyImpact(damaged, projectile, AOE_RADIUS)
    IN IF damaged.threw THEN damaged
       ELSE [affected EXCEPT !.projectiles[i].isComplete = TRUE]

ProjectileStepJs(gs, i, deltaTicks) ==
    LET projectile == gs.projectiles[i]
        progress == projectile.travelProgress + deltaTicks * LerpSpeed(projectile)
        travelled == Emit([gs EXCEPT !.projectiles[i].travelProgress = progress],
                          Event("travel", projectile.id, 0, progress))
    IN IF progress >= TicksPerSecond THEN ImpactJs(travelled, i) ELSE travelled

RECURSIVE ProjectilesJsFrom(_, _, _)
ProjectilesJsFrom(gs, i, deltaTicks) ==
    IF i > Len(gs.projectiles) \/ gs.threw THEN gs
    ELSE ProjectilesJsFrom(ProjectileStepJs(gs, i, deltaTicks), i + 1, deltaTicks)

\* CombatSystem.tick over JavaScript values; there are no towers
CombatSystemTickJs(gs, deltaTicks) ==
    LET flown == ProjectilesJsFrom(CachePrevFrom(gs, 1), 1, deltaTicks)
        cleaned == CleanupEnemiesFrom(flown, 1, << >>)
    IN IF flown.threw THEN flown
       ELSE StorePrevFrom([cleaned EXCEPT !.projectiles = ProjectilesLeft(@, 1)], 1)

JsSpeeds == {JsNumber(2), JsNaN, JsInfinity, JsUndefined}
JsDamages == {JsNumber(8), JsNumber(0), JsNaN, JsInfinity, JsUndefined}
JsMultipliers == {JsNumber(MultDen), JsNumber(3), JsNumber(0), JsNaN, JsInfinity}

\* gameState.modifiers: with the multiplier, without it, or not there at all
JsModifiers ==
    {[towerDamageMultiplier |-> m] : m \in JsMultipliers}
      \cup {[other |-> 0], [missing |-> TRUE]}

\* one enemy at the start of the path and one projectile fired at it
InitMalformed ==
    \E speed \in JsSpeeds, damage \in JsDamages, modifiers \in JsModifiers,
       hitPoints \in {10, 30}, aoe \in {0, 40} :
        LET origin == FootprintCenter([x |-> 0, y |-> 1])
            enemy == [EnemyEntity([hitPoints |-> hitPoints,
                                   movementSpeedCellsPerSecond |-> speed,
                                   rewardMoney |-> 8])
                        EXCEPT !.movementSpeedCellsPerSecond = speed]
            whole == [InitialGameState EXCEPT
                        !.obj = << enemy >>,
                        !.enemies = << 1 >>,
                        !.modifiers = modifiers,
                        !.projectiles =
                           << ProjectileEntity(1, origin.x, origin.y,
                                               Waypoint(0).x, Waypoint(0).y,
                                               damage, "basic", 1, aoe, NullEffects) >>,
                        !.nextProjectileId = 2]
                       @@ [threw |-> FALSE]
        IN /\ gameState =
                 IF "missing" \in DOMAIN modifiers
                 THEN [f \in DOMAIN whole \ {"modifiers"} |-> whole[f]]
                 ELSE whole
           /\ targetingMode = "closest"
           /\ clock = 0
           /\ impactCount = << 0 >>
           /\ leaked = << 0 >>

\* update(deltaSeconds); an error thrown in it ends the animation loop
UpdateMalformed(deltaFrames) ==
    /\ clock + deltaFrames <= MaxClock
    /\ ~gameState.threw
    /\ gameState' = CombatSystemTickJs(
                        MovementSystemTickJs(
                            [gameState EXCEPT !.trace = << Event("update", 0, 0, 0) >>],
                            deltaFrames * FrameTicks),
                        deltaFrames * FrameTicks)
    /\ clock' = clock + deltaFrames
    /\ Tally(gameState')
    /\ UNCHANGED targetingMode

NextMalformed == \E deltaFrames \in DeltaFrames : UpdateMalformed(deltaFrames)

SpecMalformed == InitMalformed /\ [][NextMalformed]_vars

\* ------------------------------------------------------------------------
\* Whole frames with aftershock towers and their upgrade panel
\* ------------------------------------------------------------------------
\* tower.upgradeState?.[category] ?? 0
UpgradeLevel(tower, category) ==
    IF "upgradeState" \in DOMAIN tower /\ category \in DOMAIN tower.upgradeState
    THEN tower.upgradeState[category] ELSE 0

\* towerCfg.upgrades[category].levels[level], << >> when there is none
UpgradeDefs(tower, category) ==
    LET towerCfg == towersByTypeKey[tower.towerTypeKey]
        level == UpgradeLevel(tower, category)
    IN IF "upgrades" \in DOMAIN towerCfg /\ category \in DOMAIN towerCfg.upgrades
          /\ level + 1 \in DOMAIN towerCfg.upgrades[category].levels
       THEN << towerCfg.upgrades[category].levels[level + 1] >>
       ELSE << >>

\* "tower[key] *= factor" for every key of def.multiplier
MultipliedTower(tower, def) ==
    IF "multiplier" \in DOMAIN def
    THEN [key \in DOMAIN tower |->
             IF key \in DOMAIN def.multiplier
             THEN (tower[key] * def.multiplier[key]) \div 10
             ELSE tower[key]]
    ELSE tower

\* merged: { ...current } with every key of the addition set to the
\* addition's value, merged over the current one where both are objects
MergedEffects(current, additionRoot) ==
    [effectKey \in DOMAIN current \cup DOMAIN additionRoot |->
        IF effectKey \in DOMAIN additionRoot
        THEN IF effectKey \in DOMAIN current
             THEN additionRoot[effectKey] @@ current[effectKey]
             ELSE additionRoot[effectKey]
        ELSE current[effectKey]]

\* the tower after "if (def.unlocksEffect) {...}": current is
\* tower.projectileEffects || {}
UnlockedTower(tower, def) ==
    IF "unlocksEffect" \in DOMAIN def
    THEN LET additionRoot == IF "projectileEffects" \in DOMAIN def.unlocksEffect
                             THEN def.unlocksEffect.projectileEffects
                             ELSE def.unlocksEffect
         IN [tower EXCEPT !.projectileEffects =
                IF IsNull(tower.projectileEffects) THEN additionRoot
                ELSE MergedEffects(tower.projectileEffects, additionRoot)]
    ELSE tower

\* TowerUpgradeSystem.applyUpgrade(tower, category, gameConfig)
applyUpgrade(tower, category) ==
    LET defs == UpgradeDefs(tower, category)
        upgraded == UnlockedTower(MultipliedTower(tower, defs[1]), defs[1])
        state == IF "upgradeState" \in DOMAIN tower THEN tower.upgradeState
                 ELSE [c \in {} |-> 0]
    IN IF defs = << >> THEN tower
       ELSE [upgradeState |->
                [c \in DOMAIN state \cup {category} |->
                    IF c = category THEN UpgradeLevel(tower, category) + 1 ELSE state[c]]]
               @@ upgraded

UpgradeCategories == {"range", "shockwave"}

\* the cell the aftershock tower is placed on
UpgradeTowerCell == [x |-> 0, y |-> 1]

\* click on an upgrade button of the panel for tower i: canUpgrade, the
\* cost, applyUpgrade
UpgradeTower(i, category) ==
    LET tower == gameState.towers[i]
        defs == UpgradeDefs(tower, category)
    IN /\ i \in DOMAIN gameState.towers
       /\ defs # << >>
       /\ gameState.money >= defs[1].cost
       /\ gameState' = [gameState EXCEPT
                          !.money = @ - defs[1].cost,
                          !.towers[i] = applyUpgrade(tower, category),
                          !.trace = << >>]
       /\ Tally(gameState')
       /\ UNCHANGED << targetingMode, clock >>

NextUpgrade ==
    \/ \E deltaFrames \in DeltaFrames : Update(deltaFrames)
    \/ \E statBlock \in EnemyStatBlocks : AdminSpawnEnemy(statBlock)
    \/ PlaceTower("aftershock", UpgradeTowerCell)
    \/ \E i \in 1..MaxTowers, category \in UpgradeCategories : UpgradeTower(i, category)

SpecUpgrade == Init /\ [][NextUpgrade]_vars

\* ------------------------------------------------------------------------
\* Reading the record of a frame
\* ------------------------------------------------------------------------
DamageKinds == {"direct", "aoe", "hop"}

RECURSIVE SumSeq(_, _)
SumSeq(seq, i) == IF i > Len(seq) THEN 0 ELSE seq[i] + SumSeq(seq, i + 1)

LiveProjectileIds(gs) == {gs.projectiles[i].id : i \in DOMAIN gs.projectiles}

\* damage events on enemy id among the first k - 1 entries of a trace
RECURSIVE DamageBefore(_, _, _)
DamageBefore(trace, id, k) ==
    IF k <= 1 THEN 0
    ELSE DamageBefore(trace, id, k - 1)
           + (IF trace[k - 1].enemy = id /\ trace[k - 1].kind \in DamageKinds
              THEN trace[k - 1].amount ELSE 0)

\* ------------------------------------------------------------------------
\* C1
\* ------------------------------------------------------------------------
\* C1: in every reachable state every enemy's hitPoints is >= 0, whatever
\* mix of direct hits, AoE sweeps and chain hops the frames applied
C1_HealthNeverNegative ==
    \A id \in DOMAIN gameState.obj : gameState.obj[id].hitPoints >= 0

\* a frame in which an AoE sweep and a chain hop both took health and an
\* enemy was brought to exactly 0 by a hit smaller than the raw damage
C1_Witness ==
    LET trace == gameState.trace
    IN /\ \E k \in DOMAIN trace : trace[k].kind = "aoe" /\ trace[k].amount > 0
       /\ \E k \in DOMAIN trace : trace[k].kind = "hop" /\ trace[k].amount > 0
       /\ \E k \in DOMAIN trace :
             /\ trace[k].kind \in DamageKinds
             /\ trace[k].amount > 0
             /\ gameState.obj[trace[k].enemy].hitPoints = 0
             /\ gameState.obj[trace[k].enemy].maximumHitPoints > 0

\* ------------------------------------------------------------------------
\* C2
\* ------------------------------------------------------------------------
\* C2: every projectile runs its impact on one tick only, the tick its
\* travelProgress first reaches 1; the damage path of that tick is the AoE
\* sweep (radius > 0) or the direct hit, never both; and the projectile has
\* left gameState.projectiles when that tick ends
C2_ImpactOnce ==
    LET trace == gameState.trace
        live == LiveProjectileIds(gameState)
    IN /\ \A id \in DOMAIN impactCount : impactCount[id] <= 1
       /\ \A id \in DOMAIN impactCount : id \notin live => impactCount[id] = 1
       /\ \A i \in DOMAIN gameState.projectiles :
             LET p == gameState.projectiles[i]
             IN /\ p.travelProgress < TicksPerSecond
                /\ ~p.isComplete
                /\ impactCount[p.id] = 0
       /\ \A k \in DOMAIN trace :
             /\ trace[k].kind = "impact" =>
                   /\ trace[k].projectile \notin live
                   /\ CountEvents(trace, "impact", trace[k].projectile) = 1
                   /\ trace[k].amount > 0 =>
                         CountEvents(trace, "direct", trace[k].projectile) = 0
                   /\ trace[k].amount = 0 =>
                         /\ CountEvents(trace, "aoe", trace[k].projectile) = 0
                         /\ CountEvents(trace, "direct", trace[k].projectile) <= 1
             /\ trace[k].kind \in {"direct", "aoe"} =>
                   CountEvents(trace, "impact", trace[k].projectile) = 1

\* a frame in which one projectile hit through the AoE sweep and another
\* through the direct hit, both impacted once and gone from the list
C2_Witness ==
    LET trace == gameState.trace
    IN \E k, m \in DOMAIN trace :
          /\ trace[k].kind = "aoe" /\ trace[k].amount > 0
          /\ trace[m].kind = "direct" /\ trace[m].amount > 0
          /\ impactCount[trace[k].projectile] = 1
          /\ impactCount[trace[m].projectile] = 1
          /\ trace[k].projectile \notin LiveProjectileIds(gameState)
          /\ trace[m].projectile \notin LiveProjectileIds(gameState)

\* ------------------------------------------------------------------------
\* C3
\* ------------------------------------------------------------------------
\* C3: however the movement and combat ticks are repeated, the life loss of
\* an enemy's leak is taken once: the enemy is flagged, skipped by later
\* movement ticks and gone from gameState.enemies after the next cleanup
C3_LeakCountedOnce ==
    LET trace == gameState.trace
    IN /\ \A id \in DOMAIN leaked : leaked[id] <= 1
       /\ gameState.lives = startingLives - SumSeq(leaked, 1)
       /\ \A i \in DOMAIN gameState.enemies :
             LET enemy == gameState.obj[gameState.enemies[i]]
             IN /\ leaked[gameState.enemies[i]] = 1
                     <=> (enemy.reachedEndOfPath /\ enemy.isMarkedDead)
                /\ (trace # << >> /\ trace[1].kind = "combatTick") => ~enemy.isMarkedDead

\* a movement tick with deltaSeconds > 0 has run over an enemy that had
\* leaked before and is still in gameState.enemies
C3_Witness ==
    LET trace == gameState.trace
    IN /\ Len(trace) = 1
       /\ trace[1].kind = "movementTick"
       /\ trace[1].amount > 0
       /\ \E i \in DOMAIN gameState.enemies :
             /\ leaked[gameState.enemies[i]] = 1
             /\ gameState.obj[gameState.enemies[i]].reachedEndOfPath

\* ------------------------------------------------------------------------
\* C4
\* ------------------------------------------------------------------------
\* hit points of enemy id when entry k of the frame's record was written
HpBefore(id, k) ==
    gameState.obj[id].hitPoints - DamageBefore(gameState'.trace, id, k)

DeadBefore(id, k) ==
    \/ HpBefore(id, k) <= 0
    \/ gameState.obj[id].isMarkedDead
    \/ \E j \in 1..(k - 1) :
          gameState'.trace[j].kind = "leak" /\ gameState'.trace[j].enemy = id

C4_Step ==
    LET trace == gameState'.trace
    IN \A k \in DOMAIN trace :
          (/\ trace[k].kind = "impact"
           /\ trace[k].amount = 0
           /\ trace[k].enemy # 0
           /\ DeadBefore(trace[k].enemy, k))
          => /\ CountEvents(trace, "direct", trace[k].projectile) = 0
             /\ CountEvents(trace, "text", trace[k].projectile) = 0
             /\ trace[k].projectile \notin LiveProjectileIds(gameState')
             /\ impactCount'[trace[k].projectile] = 1

\* C4: a direct-hit projectile (AoE radius 0) whose target is already dead
\* (marked dead or hit points <= 0) when it impacts takes health from nobody
\* through the direct hit, raises no floating text, and is still completed
\* and removed on that tick
C4_StaleTarget == [][C4_Step]_vars

\* a direct-hit projectile has impacted on a target that had been killed and
\* removed by the cleanup of an earlier frame, and is gone from the list
C4_Witness ==
    LET trace == gameState.trace
    IN \E k \in DOMAIN trace :
          /\ trace[k].kind = "impact"
          /\ trace[k].amount = 0
          /\ trace[k].enemy # 0
          /\ trace[k].enemy \notin Range(gameState.enemies)
          /\ leaked[trace[k].enemy] = 0
          /\ \A j \in DOMAIN trace : j # k => trace[j].enemy # trace[k].enemy
          /\ trace[k].projectile \notin LiveProjectileIds(gameState)

\* ------------------------------------------------------------------------
\* C10
\* ------------------------------------------------------------------------
\* the phases of a frame in the order of update(): movement, targeting and
\* firing, projectile travel and impact, cleanup
PhaseRank(kind) ==
    CASE kind = "update" -> 0
      [] kind = "leak" -> 1
      [] kind = "fire" -> 2
      [] kind = "reward" -> 4
      [] OTHER -> 3

\* the order the claim states: firing, projectiles, movement, cleanup
ClaimedPhaseRank(kind) ==
    CASE kind = "update" -> 0
      [] kind = "fire" -> 1
      [] kind = "leak" -> 4
      [] kind = "reward" -> 5
      [] OTHER -> 2

RECURSIVE ChainDamageAt(_, _, _)
ChainDamageAt(damage, falloff, k) ==
    IF k = 0 THEN damage
    ELSE Round(ChainDamageAt(damage, falloff, k - 1) * falloff, FalloffDen)

HopAmounts(trace) == [k \in 1..Len(trace) |-> trace[k].amount]

C5_Step ==
    (clock = 0 /\ clock' = 1) =>
       LET projectile == gameState.projectiles[1]
           cfg == projectile.effects.chain
           multiplier == gameState.modifiers.towerDamageMultiplier
           trace == gameState'.trace
           health(k) == gameState.obj[trace[k].enemy].hitPoints
                          - DamageBefore(trace, trace[k].enemy, k)
       IN /\ \A k \in DOMAIN trace :
                /\ trace[k].kind = "hop"
                /\ trace[k].amount =
                      Min2(health(k),
                           Round(ChainDamageAt(projectile.damagePerHit, cfg.damageFalloff, k - 1)
                                   * multiplier, MultDen))
          /\ \A id \in DOMAIN gameState.obj :
                gameState'.obj[id].hitPoints
                   = gameState.obj[id].hitPoints - DamageBefore(trace, id, Len(trace) + 1)
          /\ (/\ cfg.maxJumps = 3 /\ cfg.damageFalloff = 6
              /\ projectile.damagePerHit = 100 /\ multiplier = MultDen
              /\ Len(trace) = 3
              /\ \A k \in DOMAIN trace : gameState.obj[trace[k].enemy].hitPoints >= 100)
             => HopAmounts(trace) = << 100, 60, 36 >>

NoEnemyHitTwice(trace) ==
    \A j, k \in DOMAIN trace : j # k => trace[j].enemy # trace[k].enemy

\* C6 (as stated): within one applyChainImpact no enemy is selected for more
\* than one hop and the hops number at most the configured maxJumps
C6_ClaimedHopBound ==
    clock = 1 =>
       /\ NoEnemyHitTwice(gameState.trace)
       /\ Len(gameState.trace) <= gameState.projectiles[1].effects.chain.maxJumps

\* C6 (amended): within one applyChainImpact no enemy is selected for more
\* than one hop and the hops number at most max(1, configured maxJumps)
C6_HopBound ==
    clock = 1 =>
       LET configured == gameState.projectiles[1].effects.chain.maxJumps
       IN /\ NoEnemyHitTwice(gameState.trace)
          /\ Len(gameState.trace) <= (IF configured < 1 THEN 1 ELSE configured)
          /\ \A k \in DOMAIN gameState.trace : gameState.trace[k].kind = "hop"

\* a chain configured with maxJumps 0 has made its one hop and left a live
\* enemy within jumpRadius of it untouched
C6_Witness ==
    LET trace == gameState.trace
        cfg == gameState.projectiles[1].effects.chain
    IN /\ clock = 1
       /\ cfg.maxJumps = 0
       /\ Len(trace) = 1
       /\ trace[1].amount > 0
       /\ \E id \in Range(gameState.enemies) :
             /\ id # trace[1].enemy
             /\ ~gameState.obj[id].isMarkedDead
             /\ gameState.obj[id].hitPoints = gameState.obj[id].maximumHitPoints
             /\ Sq(gameState.obj[id].x - gameState.obj[trace[1].enemy].x,
                   gameState.obj[id].y - gameState.obj[trace[1].enemy].y)
                  <= cfg.jumpRadius * cfg.jumpRadius

\* ------------------------------------------------------------------------
\* C7
\* ------------------------------------------------------------------------
\* length of the polyline from waypoint 0 to waypoint idx
RECURSIVE CumulativeLength(_)
CumulativeLength(idx) ==
    IF idx = 0 THEN 0
    ELSE CumulativeLength(idx - 1)
           + Abs(Waypoint(idx).x - Waypoint(idx - 1).x)
           + Abs(Waypoint(idx).y - Waypoint(idx - 1).y)

PathLength == CumulativeLength(WaypointCount - 1)

\* the enemy stands on the (axis-parallel) segment that ends at its waypoint
OnSegment(enemy) ==
    LET to == Waypoint(enemy.currentWaypointIndex)
        from == Waypoint(enemy.currentWaypointIndex - 1)
    IN /\ Min2(from.x, to.x) <= enemy.x /\ enemy.x <= Max2(from.x, to.x)
       /\ Min2(from.y, to.y) <= enemy.y /\ enemy.y <= Max2(from.y, to.y)

\* distance travelled along the polyline by an enemy standing on it
PathPosition(enemy) ==
    LET to == Waypoint(enemy.currentWaypointIndex)
    IN CumulativeLength(enemy.currentWaypointIndex)
         - (Abs(to.x - enemy.x) + Abs(to.y - enemy.y))

C7_Step ==
    LET trace == gameState'.trace
    IN (trace # << >> /\ trace[1].kind = "movementTick") =>
          \A i \in DOMAIN gameState.enemies :
             LET id == gameState.enemies[i]
                 before == gameState.obj[id]
                 after == gameState'.obj[id]
                 budget == (before.movementSpeedCellsPerSecond * gridCellSize
                              * trace[1].amount * FrameTicks) \div TicksPerSecond
                 idx == before.currentWaypointIndex
                 d1 == CumulativeLength(idx) - PathPosition(before)
                 d2 == CumulativeLength(idx + 1) - CumulativeLength(idx)
             IN ~before.isMarkedDead =>
                   /\ OnSegment(after)
                   /\ PathPosition(after) = Min2(PathPosition(before) + budget, PathLength)
                   /\ (idx + 2 < WaypointCount
                         /\ budget > d1 + d2
                         /\ budget < CumulativeLength(idx + 2) - PathPosition(before))
                      => /\ after.currentWaypointIndex = idx + 2
                         /\ Abs(after.x - Waypoint(idx + 1).x) + Abs(after.y - Waypoint(idx + 1).y)
                              = budget - d1 - d2

\* C7: one MovementSystem.tick call moves an enemy along its waypoint
\* polyline by min(speed * gridCellSize * dt, remaining path length); a
\* budget beyond the next two waypoints passes both in that call, advances
\* currentWaypointIndex by two and leaves the enemy on the segment to the
\* third at offset budget - d1 - d2 from the second
C7_PathDistance == [][C7_Step]_vars

\* the fast enemy has gone from the start past two waypoints in one call of
\* 3/8 s: 90 px, 10 px beyond the second waypoint
C7_Witness ==
    /\ gameState.trace # << >>
    /\ gameState.trace[1].kind = "movementTick"
    /\ gameState.trace[1].amount = 3
    /\ \E i \in DOMAIN gameState.enemies :
          LET enemy == gameState.obj[gameState.enemies[i]]
          IN /\ enemy.movementSpeedCellsPerSecond = 6
             /\ enemy.currentWaypointIndex = 3
             /\ enemy.x = Waypoint(2).x + 10
             /\ enemy.y = Waypoint(2).y

\* ------------------------------------------------------------------------
\* C8
\* ------------------------------------------------------------------------
\* ids of the enemies not marked dead and within attackRangePixels of the tower
LiveInRange(tower) ==
    {id \in Range(gameState.enemies) :
        /\ ~gameState.obj[id].isMarkedDead
        /\ Sq(tower.x - gameState.obj[id].x, tower.y - gameState.obj[id].y)
             <= tower.attackRangePixels * tower.attackRangePixels}

\* the mode's comparison key, larger is better
ModeKey(mode, tower, enemy) ==
    CASE mode = "first" -> enemy.currentWaypointIndex
      [] mode = "last" -> 0 - enemy.currentWaypointIndex
      [] mode = "strongest" -> enemy.hitPoints
      [] mode = "weakest" -> 0 - enemy.hitPoints
      [] OTHER -> 0 - Sq(tower.x - enemy.x, tower.y - enemy.y)

\* C8: chooseTargetByMode returns null iff no enemy is both not marked dead
\* and within attackRangePixels; otherwise one of those enemies, optimal
\* for the mode (closest for unknown modes)
C8_OptimalTarget ==
    clock = 1 =>
       LET tower == gameState.towers[1]
           chosen == tower.currentTarget
           candidates == LiveInRange(tower)
       IN /\ chosen = 0 <=> candidates = {}
          /\ chosen # 0 =>
                /\ chosen \in candidates
                /\ \A id \in candidates :
                      ModeKey(targetingMode, tower, gameState.obj[chosen])
                         >= ModeKey(targetingMode, tower, gameState.obj[id])

\* a target was chosen over a worse candidate while an enemy with a better
\* key was passed over for being marked dead or out of range
C8_Witness ==
    LET tower == gameState.towers[1]
        chosen == tower.currentTarget
        key(id) == ModeKey(targetingMode, tower, gameState.obj[id])
    IN /\ clock = 1
       /\ chosen # 0
       /\ \E id \in LiveInRange(tower) : key(id) < key(chosen)
       /\ \E id \in Range(gameState.enemies) \ LiveInRange(tower) : key(id) > key(chosen)

\* ------------------------------------------------------------------------
\* C9
\* ------------------------------------------------------------------------
\* place in gameState.enemies
PositionOf(id) == CHOOSE i \in DOMAIN gameState.enemies : gameState.enemies[i] = id

TiedWithChosen(tower) ==
    {id \in LiveInRange(tower) :
        ModeKey(targetingMode, tower, gameState.obj[id])
           = ModeKey(targetingMode, tower, gameState.obj[tower.currentTarget])}

\* C9 (as stated): of the candidates tied on the mode's key the one first in
\* the iteration order of gameState.enemies is returned
C9_ClaimedFirstOfTies ==
    (clock = 1 /\ gameState.towers[1].currentTarget # 0) =>
       \A id \in TiedWithChosen(gameState.towers[1]) :
          PositionOf(gameState.towers[1].currentTarget) <= PositionOf(id)

\* C9 (amended): of the candidates tied on the mode's key the one last in
\* the iteration order of gameState.enemies is returned
C9_LastOfTies ==
    (clock = 1 /\ gameState.towers[1].currentTarget # 0) =>
       \A id \in TiedWithChosen(gameState.towers[1]) :
          PositionOf(gameState.towers[1].currentTarget) >= PositionOf(id)

\* a target was chosen among three candidates tied on the key
C9_Witness ==
    /\ clock = 1
    /\ gameState.towers[1].currentTarget # 0
    /\ Cardinality(TiedWithChosen(gameState.towers[1])) = 3
    /\ Cardinality(LiveInRange(gameState.towers[1])) = 3

\* ------------------------------------------------------------------------
\* C11
\* ------------------------------------------------------------------------
\* C11: an entry of gameState.scheduledEffects is executed and removed by the
\* first tick whose time is >= its dueAt: once a frame has run at a time
\* later than an entry's dueAt the entry is no longer queued
C11_ClaimedFlush ==
    \A k \in DOMAIN gameState.scheduledEffects :
        gameState.scheduledEffects[k].dueAt >= gameState.performanceNow

\* ------------------------------------------------------------------------
\* C18
\* ------------------------------------------------------------------------
\* C18: cluster children are one level deep: only the fired projectile
\* (projectile 1 here) spawns children, a projectile created by
\* applyClusterImpact never does
C18_ClaimedOneLevel ==
    \A k \in DOMAIN gameState.trace :
        gameState.trace[k].kind = "spawn" => gameState.trace[k].projectile = 1

\* ------------------------------------------------------------------------
\* C12
\* ------------------------------------------------------------------------
\* sum of the reward entries among the first k entries of a trace
RECURSIVE RewardSum(_, _)
RewardSum(trace, k) ==
    IF k = 0 THEN 0
    ELSE RewardSum(trace, k - 1)
           + (IF trace[k].kind = "reward" THEN trace[k].amount ELSE 0)

C12_Step ==
    LET trace == gameState'.trace
        before == Range(gameState.enemies)
        after == Range(gameState'.enemies)
    IN /\ \A id \in DOMAIN gameState.obj : id \notin before => id \notin after
       /\ (trace # << >> /\ trace[1].kind = "update") =>
             /\ gameState'.money = gameState.money + RewardSum(trace, Len(trace))
             /\ \A k \in DOMAIN trace :
                   trace[k].kind = "reward" =>
                      LET id == trace[k].enemy
                      IN /\ id \in before
                         /\ id \notin after
                         /\ CountEnemyEvents(trace, "reward", id) = 1
                         /\ trace[k].amount = gameState.obj[id].rewardMoney
                         /\ gameState.obj[id].hitPoints > 0
                         /\ gameState'.obj[id].hitPoints = 0
                         /\ DamageBefore(trace, id, Len(trace) + 1)
                               = gameState.obj[id].hitPoints
                         /\ leaked'[id] = 0
                         /\ ~gameState'.obj[id].reachedEndOfPath
             /\ \A id \in before :
                   gameState'.obj[id].hitPoints <= 0
                      => CountEnemyEvents(trace, "reward", id) = 1
             /\ \A id \in before :
                   leaked'[id] = 1 => CountEnemyEvents(trace, "reward", id) = 0

\* C12: over any sequence of frames money is credited with an enemy's
\* rewardMoney once, in the frame damage brought its hitPoints to 0, after
\* which it is out of the live collection for good; an enemy that leaked is
\* never paid for, so none both costs a life and pays a reward
C12_RewardOnce == [][C12_Step]_vars

\* a frame that paid the reward of a killed enemy while another enemy has
\* leaked and cost a life
C12_Witness ==
    LET trace == gameState.trace
    IN \E k \in DOMAIN trace, other \in DOMAIN leaked :
          /\ trace[k].kind = "reward"
          /\ trace[k].amount > 0
          /\ leaked[trace[k].enemy] = 0
          /\ leaked[other] = 1
          /\ gameState.lives = startingLives - 1

\* ------------------------------------------------------------------------
\* C13
\* ------------------------------------------------------------------------
\* damagePerHit and target point of the projectile that impacted in this
\* frame: one in flight before the frame, or one a tower fired in it
ImpactingProjectile(id) ==
    IF \E i \in DOMAIN gameState.projectiles : gameState.projectiles[i].id = id
    THEN LET i == CHOOSE i \in DOMAIN gameState.projectiles :
                     gameState.projectiles[i].id = id
         IN [damagePerHit |-> gameState.projectiles[i].damagePerHit,
             targetX |-> gameState.projectiles[i].targetX,
             targetY |-> gameState.projectiles[i].targetY]
    ELSE LET trace == gameState'.trace
             f == CHOOSE f \in DOMAIN trace :
                     trace[f].kind = "fire" /\ trace[f].projectile = id
         IN [damagePerHit |-> gameState.towers[trace[f].amount].damagePerShot,
             targetX |-> gameState'.obj[trace[f].enemy].x,
             targetY |-> gameState'.obj[trace[f].enemy].y]

\* the amount the impact recorded at entry k takes from enemy id: the clamp
\* to the health left of, for the AoE sweep, either one rounding of the whole
\* product (single) or the rounded raw damage times the falloff, rounded again
ExpectedDamage(k, id, single) ==
    LET trace == gameState'.trace
        projectile == ImpactingProjectile(trace[k].projectile)
        radius == trace[k].amount
        enemy == gameState'.obj[id]
        distSq == Sq(enemy.x - projectile.targetX, enemy.y - projectile.targetY)
        before == Max2(0, HpBefore(id, k))
        product == projectile.damagePerHit * gameState.modifiers.towerDamageMultiplier
                     * typeMultFor
        raw == Max2(0, Round(product, MultDen))
    IN IF enemy.isMarkedDead THEN 0
       ELSE IF radius = 0 THEN Min2(before, raw)
       ELSE IF distSq >= radius * radius THEN 0
       ELSE IF single THEN Min2(before, SingleRoundFalloff(product, MultDen, distSq, radius))
       ELSE Min2(before, RoundFalloff(raw, distSq, radius))

\* every impact of the frame took the expected amount from every enemy of
\* its damage path, and recorded nothing where the amount is 0
DamageStep(single) ==
    LET trace == gameState'.trace
    IN \A k \in DOMAIN trace :
          trace[k].kind = "impact" =>
             LET path == IF trace[k].amount > 0 THEN "aoe" ELSE "direct"
                 hit == IF trace[k].amount > 0 THEN Range(gameState.enemies)
                        ELSE {trace[k].enemy} \ {0}
             IN \A id \in hit :
                   LET events == {j \in DOMAIN trace :
                                     /\ trace[j].kind = path
                                     /\ trace[j].projectile = trace[k].projectile
                                     /\ trace[j].enemy = id}
                       expected == ExpectedDamage(k, id, single)
                   IN IF expected > 0
                      THEN /\ Cardinality(events) = 1
                           /\ \A j \in events : trace[j].amount = expected
                      ELSE events = {}

\* C13 (as stated): direct hit and AoE sweep take
\* clamp(round(baseDamage * globalMultiplier * typeMultiplier * falloff), 0,
\* health) with one rounding of the full product
C13_ClaimedSingleRounding == [][DamageStep(TRUE)]_vars

\* C13 (amended): the direct hit takes
\* clamp(round(baseDamage * globalMultiplier * typeMultiplier), 0, health);
\* the AoE sweep rounds twice and takes
\* clamp(round(max(0, round(baseDamage * globalMultiplier * typeMultiplier))
\* * (1 - distance/radius)), 0, health)
C13_DoubleRounding == [][DamageStep(FALSE)]_vars

\* an AoE hit whose amount differs from the single rounding of the product,
\* and a direct hit, under a multiplier of 1.5
C13_Witness ==
    LET trace == gameState.trace
    IN /\ gameState.modifiers.towerDamageMultiplier = 3
       /\ \E k \in DOMAIN trace :
             /\ trace[k].kind = "aoe"
             /\ trace[k].amount = 24
             /\ gameState.obj[trace[k].enemy].hitPoints > 0
       /\ \E k \in DOMAIN trace : trace[k].kind = "direct" /\ trace[k].amount > 0

\* ------------------------------------------------------------------------
\* C14
\* ------------------------------------------------------------------------
\* C14 (as stated): the stored travelProgress stays within [0, 1] in every
\* state in which the projectile exists, the one in which its impact is
\* resolved included
C14_ClaimedClamped ==
    \A k \in DOMAIN gameState.trace :
        gameState.trace[k].kind = "travel" =>
            /\ gameState.trace[k].amount >= 0
            /\ gameState.trace[k].amount <= TicksPerSecond

C14_Step ==
    LET trace == gameState'.trace
        ticked == trace # << >> /\ trace[1].kind \in {"update", "combatTick"}
    IN /\ ~ticked => gameState'.projectiles = gameState.projectiles
       /\ \A j \in DOMAIN gameState'.projectiles :
             /\ gameState'.projectiles[j].travelProgress >= 0
             /\ gameState'.projectiles[j].travelProgress < TicksPerSecond
       /\ ticked =>
             \A i \in DOMAIN gameState.projectiles :
                LET p == gameState.projectiles[i]
                    events == {k \in DOMAIN trace :
                                  trace[k].kind = "travel" /\ trace[k].projectile = p.id}
                IN /\ Cardinality(events) = 1
                   /\ \A k \in events :
                         /\ trace[k].amount >= p.travelProgress
                         /\ trace[k].amount >= TicksPerSecond =>
                               /\ CountEvents(trace, "impact", p.id) = 1
                               /\ p.id \notin LiveProjectileIds(gameState')
                         /\ trace[k].amount < TicksPerSecond =>
                               \E j \in DOMAIN gameState'.projectiles :
                                  /\ gameState'.projectiles[j].id = p.id
                                  /\ gameState'.projectiles[j].travelProgress = trace[k].amount

\* C14 (amended): for every projectile and every tick with deltaSeconds >= 0
\* the stored travelProgress never decreases; it is within [0, 1) in every
\* state between ticks; in the tick that resolves its impact the stored value
\* is >= 1 and may exceed 1 (only the interpolation parameter is clamped),
\* and the projectile is removed when that tick ends
C14_Monotone == [][C14_Step]_vars

\* a frame in which one projectile resolved its impact with a stored
\* progress above 1 while another is in flight between 0 and 1
C14_Witness ==
    /\ \E k \in DOMAIN gameState.trace :
          /\ gameState.trace[k].kind = "travel"
          /\ gameState.trace[k].amount > TicksPerSecond
          /\ CountEvents(gameState.trace, "impact", gameState.trace[k].projectile) = 1
    /\ \E j \in DOMAIN gameState.projectiles :
          /\ gameState.projectiles[j].travelProgress > 0
          /\ gameState.projectiles[j].travelProgress < TicksPerSecond

\* ------------------------------------------------------------------------
\* C15
\* ------------------------------------------------------------------------
C15_Step ==
    \A i \in DOMAIN gameState'.enemies :
        LET id == gameState'.enemies[i]
            after == gameState'.obj[id]
        IN /\ after.currentWaypointIndex <= WaypointCount - 1
           /\ after.reachedEndOfPath => after.currentWaypointIndex = WaypointCount - 1
           /\ id \in DOMAIN gameState.obj =>
                 /\ after.currentWaypointIndex >= gameState.obj[id].currentWaypointIndex
                 /\ gameState.obj[id].reachedEndOfPath => after.reachedEndOfPath

\* C15: over any sequence of movement ticks the currentWaypointIndex of an
\* enemy of the live collection never decreases and never exceeds
\* waypoints.length - 1; once the enemy has passed the last waypoint the
\* index stays at waypoints.length - 1
C15_WaypointIndex == [][C15_Step]_vars

\* a movement tick with deltaSeconds > 0 has run while one enemy, past the
\* last waypoint, holds the pinned index and another has passed a waypoint
\* with the path still ahead
C15_Witness ==
    LET trace == gameState.trace
    IN /\ trace # << >>
       /\ trace[1].kind = "movementTick"
       /\ trace[1].amount > 0
       /\ \E i, j \in DOMAIN gameState.enemies :
             LET a == gameState.obj[gameState.enemies[i]]
                 b == gameState.obj[gameState.enemies[j]]
             IN /\ a.reachedEndOfPath
                /\ a.currentWaypointIndex = WaypointCount - 1
                /\ ~b.reachedEndOfPath
                /\ b.currentWaypointIndex > 1

\* ------------------------------------------------------------------------
\* C16
\* ------------------------------------------------------------------------
C16_Step ==
    LET trace == gameState'.trace
        deltaTicks == (clock' - clock) * FrameTicks
        moved == MovementSystemTick(gameState, deltaTicks)
    IN (trace # << >> /\ trace[1].kind = "update" /\ deltaTicks > 0) =>
          /\ gameState'.nextProjectileId - gameState.nextProjectileId
                = Cardinality({k \in DOMAIN trace : trace[k].kind = "fire"})
          /\ \A i \in DOMAIN gameState.towers :
                LET tower == gameState.towers[i]
                    cooled == tower.cooldownSeconds - deltaTicks
                    targetEnemy == chooseTargetByMode(targetingMode, tower, moved)
                    fires == {k \in DOMAIN trace :
                                 trace[k].kind = "fire" /\ trace[k].amount = i}
                IN /\ Cardinality(fires) <= 1
                   /\ fires # {} <=> (cooled <= 0 /\ targetEnemy # 0)
                   /\ fires # {} =>
                         gameState'.towers[i].cooldownSeconds
                            = CooldownTicks(tower.attacksPerSecond)
                   /\ fires = {} =>
                         /\ gameState'.towers[i].cooldownSeconds < tower.cooldownSeconds
                         /\ gameState'.towers[i].cooldownSeconds = cooled

\* C16: in every tick with deltaSeconds > 0 a tower fires, pushing exactly
\* one projectile, iff its cooldown less deltaSeconds is <= 0 and
\* chooseTargetByMode returned a target; when it fires its cooldown becomes
\* exactly 1/attacksPerSecond, when it does not its cooldown is smaller than
\* before by deltaSeconds; so it fires at most once per tick and consecutive
\* shots are at least 1/attacksPerSecond of accumulated deltaSeconds apart
C16_Cooldown == [][C16_Step]_vars

\* the only tower has fired its second shot, no earlier than 1/1.6 s after
\* the first
C16_Witness ==
    LET trace == gameState.trace
    IN /\ Len(gameState.towers) = 1
       /\ gameState.nextProjectileId = 3
       /\ \E k \in DOMAIN trace :
             /\ trace[k].kind = "fire"
             /\ trace[k].projectile = 2
             /\ trace[k].amount = 1
       /\ clock * FrameTicks >= CooldownTicks(gameState.towers[1].attacksPerSecond)

\* ------------------------------------------------------------------------
\* C17
\* ------------------------------------------------------------------------
\* entries of the given kinds that projectile p wrote about enemy e
HitsOf(trace, kinds, p, e) ==
    {k \in DOMAIN trace :
        trace[k].kind \in kinds /\ trace[k].projectile = p /\ trace[k].enemy = e}

\* C17 (as stated): on one impact no enemy has its health reduced more than
\* once by the projectile, chain effect included
C17_ClaimedSingleHit ==
    LET trace == gameState.trace
    IN \A k \in DOMAIN trace :
          (trace[k].kind \in DamageKinds /\ trace[k].amount > 0) =>
             Cardinality({j \in HitsOf(trace, DamageKinds, trace[k].projectile,
                                       trace[k].enemy) : trace[j].amount > 0}) = 1

\* C17 (amended): on one impact an enemy is hit at most once by the
\* projectile's damage path (direct hit or AoE sweep) and at most once by its
\* chain effect; the chain starts with nothing visited, so an enemy damaged
\* by the damage path can be damaged once more by the chain
C17_OncePerPath ==
    LET trace == gameState.trace
    IN \A k \in DOMAIN trace :
          trace[k].kind \in DamageKinds =>
             /\ Cardinality(HitsOf(trace, {"direct", "aoe"}, trace[k].projectile,
                                   trace[k].enemy)) <= 1
             /\ Cardinality(HitsOf(trace, {"hop"}, trace[k].projectile,
                                   trace[k].enemy)) <= 1

\* an impact whose direct hit and whose chain both took health from the
\* same enemy
C17_Witness ==
    LET trace == gameState.trace
    IN \E j, k \in DOMAIN trace :
          /\ trace[j].kind = "direct" /\ trace[j].amount > 0
          /\ trace[k].kind = "hop" /\ trace[k].amount > 0
          /\ j < k
          /\ trace[j].projectile = trace[k].projectile
          /\ trace[j].enemy = trace[k].enemy

\* ------------------------------------------------------------------------
\* C19
\* ------------------------------------------------------------------------
\* the hops of the chain that has run, in order
ChainHops == SelectSeq(gameState.trace, LAMBDA e : e.kind = "hop")

\* the projectile whose chain has run and its chain configuration
ChainProjectile == gameState.projectiles[1]
ChainCfg == ChainProjectile.effects.chain

\* search origin of hop k: the impact point, then the enemy hit before
HopOrigin(k) ==
    IF k = 1 THEN [x |-> ChainProjectile.targetX, y |-> ChainProjectile.targetY]
    ELSE [x |-> gameState.obj[ChainHops[k - 1].enemy].x,
          y |-> gameState.obj[ChainHops[k - 1].enemy].y]

HopDistSq(k, id) ==
    Sq(gameState.obj[id].x - HopOrigin(k).x, gameState.obj[id].y - HopOrigin(k).y)

\* enemies hop k may select: not marked dead, not hit by an earlier hop,
\* within jumpRadius of the origin
HopEligible(k) ==
    {id \in Range(gameState.enemies) :
        /\ ~gameState.obj[id].isMarkedDead
        /\ id \notin {ChainHops[j].enemy : j \in 1..(k - 1)}
        /\ HopDistSq(k, id) <= ChainJumpRadius(ChainCfg) * ChainJumpRadius(ChainCfg)}

\* C19: with preferUntargeted unset every hop selects an enemy at minimal
\* distance from the search origin among the enemies not marked dead, not
\* yet visited and within jumpRadius, the origin being the impact point for
\* the first hop and the previously hit enemy's position afterwards; the
\* chain ends early only when no such enemy is left or the damage has
\* decayed to 0
C19_NearestHop ==
    (clock = 1 /\ ChainCfg.enabled /\ ~ChainCfg.preferUntargeted) =>
        /\ \A k \in DOMAIN ChainHops :
              /\ ChainHops[k].enemy \in HopEligible(k)
              /\ \A id \in HopEligible(k) :
                    HopDistSq(k, ChainHops[k].enemy) <= HopDistSq(k, id)
        /\ (/\ Len(ChainHops) < ChainMaxJumps(ChainCfg)
            /\ ChainDamageAt(ChainProjectile.damagePerHit, ChainFalloff(ChainCfg),
                             Len(ChainHops)) > 0)
           => HopEligible(Len(ChainHops) + 1) = {}

\* a chain without preferUntargeted whose first hop had candidates at
\* different distances and passed over the first enemy of the list, and
\* which went on to an enemy out of reach of the impact point
C19_Witness ==
    /\ clock = 1
    /\ ChainCfg.enabled
    /\ ~ChainCfg.preferUntargeted
    /\ Len(ChainHops) >= 2
    /\ ChainHops[1].enemy # gameState.enemies[1]
    /\ \E id \in HopEligible(1) : HopDistSq(1, id) > HopDistSq(1, ChainHops[1].enemy)
    /\ \E k \in DOMAIN ChainHops :
          HopDistSq(1, ChainHops[k].enemy)
             > ChainJumpRadius(ChainCfg) * ChainJumpRadius(ChainCfg)

\* ------------------------------------------------------------------------
\* C20
\* ------------------------------------------------------------------------
\* enemies hop k may select other than the projectile's original target
HopEligibleUntargeted(k) == HopEligible(k) \ {ChainProjectile.targetEnemy}

\* C20: with preferUntargeted set, a hop for which an eligible enemy other
\* than the original target exists selects such an enemy, the nearest of
\* them, whatever the order of gameState.enemies
C20_ClaimedPreferUntargeted ==
    (clock = 1 /\ ChainCfg.enabled /\ ChainCfg.preferUntargeted) =>
        \A k \in DOMAIN ChainHops :
            HopEligibleUntargeted(k) # {} =>
                /\ ChainHops[k].enemy \in HopEligibleUntargeted(k)
                /\ \A id \in HopEligibleUntargeted(k) :
                      HopDistSq(k, ChainHops[k].enemy) <= HopDistSq(k, id)

\* ------------------------------------------------------------------------
\* C21
\* ------------------------------------------------------------------------
C21_ClaimedStep ==
    \A k \in DOMAIN gameState'.trace :
        gameState'.trace[k].kind = "hop" =>
            /\ HpBefore(gameState'.trace[k].enemy, k) > 0
            /\ ~gameState.obj[gameState'.trace[k].enemy].isMarkedDead
            /\ gameState'.trace[k].amount > 0

\* C21: every chain hop of a frame lands on an enemy that at that moment has
\* hitPoints > 0 and is not marked dead, and takes a positive amount; no hop
\* lands on an enemy brought to 0 earlier in the same tick
C21_ClaimedLiveHops == [][C21_ClaimedStep]_vars

\* ------------------------------------------------------------------------
\* C23
\* ------------------------------------------------------------------------
\* the projectile of the impact specification, its knockback radius and
\* largest push
KbProjectile == gameState.projectiles[1]
KbEnabled ==
    /\ ~IsNull(KbProjectile.effects)
    /\ "knockback" \in DOMAIN KbProjectile.effects
    /\ KbProjectile.effects.knockback.enabled
KbRadius == KnockbackRadius(KbProjectile.aoe)
KbMaxPush == KnockbackMax(KbProjectile.effects.knockback, KbRadius)

\* the direction the fallback order picks for enemy e: its velocity when
\* non-zero, else the vector to its next waypoint, else the vector from its
\* previous-tick position
KbDirection(e) ==
    IF "vx" \in DOMAIN e /\ (e.vx # 0 \/ e.vy # 0) THEN <<e.vx, e.vy>>
    ELSE IF "nextWaypoint" \in DOMAIN e
    THEN <<e.nextWaypoint.x - e.x, e.nextWaypoint.y - e.y>>
    ELSE <<e.x - e.prevX, e.y - e.prevY>>

KbInside(e) ==
    /\ KbEnabled
    /\ ~e.isMarkedDead
    /\ Sq(e.x - KbProjectile.targetX, e.y - KbProjectile.targetY) < KbRadius * KbRadius

\* the impact moved enemy id by sign * maxPush * (1 - distance/radius) along
\* the unit vector of v
KbMovedAlong(id, v, sign) ==
    LET e == gameState.obj[id]
        dist == Hypot(e.x - KbProjectile.targetX, e.y - KbProjectile.targetY)
        len == Hypot(v[1], v[2])
    IN /\ (gameState'.obj[id].x - e.x) * len * KbRadius
             = sign * v[1] * KbMaxPush * (KbRadius - dist)
       /\ (gameState'.obj[id].y - e.y) * len * KbRadius
             = sign * v[2] * KbMaxPush * (KbRadius - dist)

KbUnmoved(id) ==
    /\ gameState'.obj[id].x = gameState.obj[id].x
    /\ gameState'.obj[id].y = gameState.obj[id].y

C23_ClaimedStep ==
    (clock = 0 /\ clock' = 1) =>
        \A id \in DOMAIN gameState.obj :
            LET e == gameState.obj[id]
            IN (KbInside(e) /\ KbDirection(e) # <<0, 0>>) =>
                   KbMovedAlong(id, KbDirection(e), 1)

\* the claim as made: an enemy inside the radius moves along the chosen
\* direction by maxPush * (1 - distance/radius)
C23_ClaimedAlongDirection == [][C23_ClaimedStep]_vars

C23_Step ==
    (clock = 0 /\ clock' = 1) =>
        \A id \in DOMAIN gameState.obj :
            LET e == gameState.obj[id]
                dxc == e.x - KbProjectile.targetX
                dyc == e.y - KbProjectile.targetY
            IN IF ~KbInside(e) THEN KbUnmoved(id)
               ELSE IF KbDirection(e) # <<0, 0>>
               THEN KbMovedAlong(id, KbDirection(e), -1)
               ELSE IF dxc = 0 /\ dyc = 0
               THEN /\ 4 * (gameState'.obj[id].x - e.x)
                         = CosQuarter(gameState.mathRandom.angle) * KbMaxPush
                    /\ 4 * (gameState'.obj[id].y - e.y)
                         = SinQuarter(gameState.mathRandom.angle) * KbMaxPush
               ELSE KbMovedAlong(id, <<dxc, dyc>>, 1)

\* C23: an enemy not marked dead and strictly inside the knockback radius is
\* moved back against the direction the fallback order picks (velocity, else
\* toward the next waypoint, else previous-tick position to current) by
\* maxPush * (1 - distance/radius); with no direction it is moved radially
\* away from the impact centre by that amount, or from the centre itself by
\* maxPush / 4 at a random angle; every other enemy keeps its position
C23_KnockbackDirection == [][C23_Step]_vars

\* an impact that pushed one enemy against its velocity although its last
\* step pointed elsewhere, and another against its last step
C23_Witness ==
    /\ clock = 1
    /\ \E k \in DOMAIN gameState.trace :
          /\ gameState.trace[k].kind = "knockback"
          /\ gameState.trace[k].amount > 0
          /\ "vx" \in DOMAIN gameState.obj[gameState.trace[k].enemy]
          /\ gameState.obj[gameState.trace[k].enemy].vy # 0
          /\ gameState.obj[gameState.trace[k].enemy].y < 100
    /\ \E k \in DOMAIN gameState.trace :
          /\ gameState.trace[k].kind = "knockback"
          /\ gameState.trace[k].amount > 0
          /\ "vx" \notin DOMAIN gameState.obj[gameState.trace[k].enemy]
          /\ gameState.obj[gameState.trace[k].enemy].x < 110
          /\ gameState.obj[gameState.trace[k].enemy].prevX = 110

\* ------------------------------------------------------------------------
\* C22
\* ------------------------------------------------------------------------
\* position of an entry of the impact's record in the order damage path,
\* explosion, knockback, cluster, chain, aftershock
HandlerRank(kind) ==
    CASE kind = "impact" -> 0
      [] kind \in {"direct", "aoe", "text"} -> 1
      [] kind = "explosion" -> 2
      [] kind = "knockback" -> 3
      [] kind = "spawn" -> 4
      [] kind = "hop" -> 5
      [] kind = "schedule" -> 6
      [] OTHER -> 7

\* C22: the impact of a projectile runs the damage path, then the handlers
\* present in the order explosion, knockback, cluster, chain, aftershock, each
\* at most once (one explosion, one push per enemy, one batch of children, one
\* hop per enemy, one aftershock entry), then marks the projectile complete;
\* every hop of the chain selects by the positions the knockback left
C22_HandlerOrder ==
    clock = 1 =>
        LET trace == gameState.trace
            projectile == gameState.projectiles[1]
            effects == projectile.effects
        IN /\ \A j, k \in DOMAIN trace :
                 j < k => HandlerRank(trace[j].kind) <= HandlerRank(trace[k].kind)
           /\ \A k \in DOMAIN trace : HandlerRank(trace[k].kind) < 7
           /\ CountEvents(trace, "explosion", projectile.id) <= 1
           /\ CountEvents(trace, "schedule", projectile.id) <= 1
           /\ \A id \in DOMAIN gameState.obj :
                 /\ CountEnemyEvents(trace, "knockback", id) <= 1
                 /\ CountEnemyEvents(trace, "hop", id) <= 1
           /\ CountEvents(trace, "spawn", projectile.id)
                 = (IF ~IsNull(effects) /\ "cluster" \in DOMAIN effects
                        /\ effects.cluster.enabled
                    THEN ClusterCount(effects.cluster) ELSE 0)
           /\ projectile.isComplete
           /\ (~IsNull(effects) /\ "chain" \in DOMAIN effects) =>
                 \A k \in DOMAIN ChainHops :
                     /\ ChainHops[k].enemy \in HopEligible(k)
                     /\ \A id \in HopEligible(k) :
                           HopDistSq(k, ChainHops[k].enemy) <= HopDistSq(k, id)

\* an impact with all five handlers whose knockback pushed an enemy from
\* within the chain's jump radius of the impact point to beyond it, and
\* whose chain then made no hop
C22_Witness ==
    /\ clock = 1
    /\ \A kind \in {"explosion", "knockback", "spawn", "schedule"} :
          \E k \in DOMAIN gameState.trace : gameState.trace[k].kind = kind
    /\ "chain" \in DOMAIN gameState.projectiles[1].effects
    /\ ChainHops = << >>
    /\ \E k \in DOMAIN gameState.trace :
          LET e == gameState.obj[gameState.trace[k].enemy]
              radius == ChainJumpRadius(ChainCfg)
          IN /\ gameState.trace[k].kind = "knockback"
             /\ Sq(e.prevX - ChainProjectile.targetX, e.prevY - ChainProjectile.targetY)
                   <= radius * radius
             /\ Sq(e.x - ChainProjectile.targetX, e.y - ChainProjectile.targetY)
                   > radius * radius

\* ------------------------------------------------------------------------
\* C24
\* ------------------------------------------------------------------------
IsTick(kind) == gameState'.trace # << >> /\ gameState'.trace[1].kind = kind

\* the movement tick leaves every enemy's hitPoints and every tower as it was
MovementWritesPositionOnly ==
    IsTick("movementTick") =>
        /\ \A id \in DOMAIN gameState.obj :
              gameState'.obj[id].hitPoints = gameState.obj[id].hitPoints
        /\ gameState'.towers = gameState.towers

C24_ClaimedStep ==
    /\ MovementWritesPositionOnly
    /\ IsTick("combatTick") =>
          \A id \in Range(gameState.enemies) :
              /\ gameState'.obj[id].x = gameState.obj[id].x
              /\ gameState'.obj[id].y = gameState.obj[id].y

\* the claim as made: no combat tick changes the position of an enemy
C24_ClaimedMovementOnly == [][C24_ClaimedStep]_vars

C24_Step ==
    /\ MovementWritesPositionOnly
    /\ IsTick("combatTick") =>
          \A id \in Range(gameState.enemies) :
              (\/ gameState'.obj[id].x # gameState.obj[id].x
               \/ gameState'.obj[id].y # gameState.obj[id].y)
                 => CountEnemyEvents(gameState'.trace, "knockback", id) > 0

\* C24: the position of an enemy is written by the movement tick and by the
\* knockback of an impact only: a combat tick changes x or y of no enemy that
\* no knockback of that tick has pushed, and the movement tick changes no
\* enemy's hitPoints and no tower's cooldown, target or heading
C24_PositionWriters == [][C24_Step]_vars

\* a combat tick whose knockback pushed a surviving enemy that had moved on
\* from where it was spawned, with a tower cooling down
C24_Witness ==
    /\ gameState.trace # << >>
    /\ gameState.trace[1].kind = "combatTick"
    /\ \E k \in DOMAIN gameState.trace :
          /\ gameState.trace[k].kind = "knockback"
          /\ gameState.trace[k].amount > 0
          /\ gameState.trace[k].enemy \in Range(gameState.enemies)
          /\ gameState.obj[gameState.trace[k].enemy].currentWaypointIndex > 1
    /\ \E i \in DOMAIN gameState.towers : gameState.towers[i].cooldownSeconds > 0

\* ------------------------------------------------------------------------
\* C25
\* ------------------------------------------------------------------------
\* the frame is the one in which projectile 1 impacted, with an enabled
\* aftershock configuration
AftershockImpacted ==
    /\ CountEvents(gameState'.trace, "impact", 1) = 1
    /\ "aftershock" \in DOMAIN gameState.projectiles[1].effects
    /\ gameState.projectiles[1].effects.aftershock.enabled

\* the impact added exactly one entry, due after the configured delay, with
\* the parent's damage scaled and rounded, and of the given radius
AftershockScheduled(radius) ==
    LET projectile == gameState.projectiles[1]
        cfg == projectile.effects.aftershock
        queue == gameState'.scheduledEffects
        entry == queue[Len(queue)]
    IN /\ Len(queue) = Len(gameState.scheduledEffects) + 1
       /\ SubSeq(queue, 1, Len(queue) - 1) = gameState.scheduledEffects
       /\ entry.dueAt = gameState'.performanceNow + cfg.delayMs
       /\ entry.dueAt >= gameState'.performanceNow
       /\ entry.radius = radius
       /\ 2 * FalloffDen * entry.damagePerHit
             <= 2 * projectile.damagePerHit * cfg.damageMultiplier + FalloffDen
       /\ 2 * FalloffDen * entry.damagePerHit
             > 2 * projectile.damagePerHit * cfg.damageMultiplier - FalloffDen
       /\ \A id \in DOMAIN gameState.obj :
             gameState.obj[id].hitPoints - gameState'.obj[id].hitPoints
                = DamageBefore(gameState'.trace, id, Len(gameState'.trace) + 1)

C25_ClaimedStep ==
    IF AftershockImpacted
    THEN LET projectile == gameState.projectiles[1]
             cfg == projectile.effects.aftershock
         IN AftershockScheduled(IF "radiusPixelsOverride" \in DOMAIN cfg
                                THEN cfg.radiusPixelsOverride ELSE projectile.aoe)
    ELSE gameState'.scheduledEffects = gameState.scheduledEffects

\* the claim as made: the entry's radius is the override or the AoE radius
C25_ClaimedRadius == [][C25_ClaimedStep]_vars

C25_Step ==
    IF AftershockImpacted
    THEN LET projectile == gameState.projectiles[1]
             cfg == projectile.effects.aftershock
         IN AftershockScheduled(
               IF "radiusPixelsOverride" \in DOMAIN cfg /\ cfg.radiusPixelsOverride # 0
               THEN cfg.radiusPixelsOverride
               ELSE IF "radiusPixelsOverride" \notin DOMAIN cfg /\ projectile.aoe # 0
               THEN projectile.aoe
               ELSE 80)
    ELSE gameState'.scheduledEffects = gameState.scheduledEffects

\* C25: the impact of a projectile with an enabled aftershock configuration
\* takes no health beyond what its damage path takes and appends exactly one
\* entry, due at the current time plus the configured delay, with the damage
\* round(parent damage * damageMultiplier) and with the override as radius,
\* else the AoE radius, else 80 when that is 0; any other frame leaves the
\* queue unchanged
C25_AftershockEntry == [][C25_Step]_vars

\* a direct-hit projectile without radius override has scheduled an
\* aftershock of radius 80, having taken the target's health by its direct
\* hit only
C25_Witness ==
    /\ Len(gameState.scheduledEffects) = 1
    /\ gameState.scheduledEffects[1].radius = 80
    /\ gameState.scheduledEffects[1].damagePerHit = 14
    /\ \E k \in DOMAIN gameState.trace : gameState.trace[k].kind = "schedule"
    /\ \E k \in DOMAIN gameState.trace :
          gameState.trace[k].kind = "direct" /\ gameState.trace[k].amount > 0

\* ------------------------------------------------------------------------
\* C26
\* ------------------------------------------------------------------------
\* maxRotationSpeedRadiansPerSecond * deltaSeconds with the default speed of
\* 2 * PI per second, for deltaSeconds in ticks
MaxRotationStep(deltaTicks) == (2 * AngleHalfTurn * deltaTicks) \div TicksPerSecond

C26_ClaimedStep ==
    gameState'.trace # << >> =>
        \A i \in DOMAIN gameState.towers :
            LET before == gameState.towers[i].rotationRadians
                after == gameState'.towers[i].rotationRadians
                deltaTicks == gameState'.trace[1].amount
                target == gameState'.towers[i].currentTarget
            IN IF target = 0 THEN after = before
               ELSE LET diff == normalizeAngle(
                                   Atan2(gameState.obj[target].y - gameState.towers[i].y,
                                         gameState.obj[target].x - gameState.towers[i].x)
                                     - before)
                    IN /\ Abs(after - before) <= MaxRotationStep(deltaTicks)
                       /\ (after - before) * diff >= 0
                       /\ Abs(after - before) <= Abs(diff)

\* C26: in a tick in which a tower has a target its heading changes by at
\* most maxRotationSpeedRadiansPerSecond * deltaSeconds (2 * PI per second),
\* toward the target along the shortest signed angular difference; with no
\* target the heading is unchanged
C26_ClaimedRotationCap == [][C26_ClaimedStep]_vars

\* ------------------------------------------------------------------------
\* C27
\* ------------------------------------------------------------------------
\* C27: every entry of a frame's record that took a positive amount of
\* health, by a direct hit, an AoE sweep or a chain hop, is followed by
\* exactly one damage notification for the same enemy carrying that amount,
\* the enemy's last-hit amount is the latest amount taken from it, and there
\* is no notification besides these
C27_ClaimedNotified ==
    LET trace == gameState.trace
        taken == {k \in DOMAIN trace : trace[k].kind \in DamageKinds /\ trace[k].amount > 0}
        texts == {k \in DOMAIN trace : trace[k].kind = "text"}
    IN /\ \A k \in taken :
             /\ k + 1 \in texts
             /\ trace[k + 1].enemy = trace[k].enemy
             /\ trace[k + 1].amount = trace[k].amount
       /\ Cardinality(texts) = Cardinality(taken)
       /\ \A k \in taken :
             (\A j \in taken : j > k => trace[j].enemy # trace[k].enemy)
                => gameState.obj[trace[k].enemy].lastDamageAmount = trace[k].amount

\* ------------------------------------------------------------------------
\* C28
\* ------------------------------------------------------------------------
\* a value when it is a number, else its default
OrDefault(value, default) == IF value.tag = "number" THEN value.v ELSE default

C28_ClaimedStep ==
    /\ ~gameState'.threw
    /\ \A id \in DOMAIN gameState'.obj :
          /\ gameState'.obj[id].hitPoints \in Nat
          /\ gameState'.obj[id].x \in Int
          /\ gameState'.obj[id].y \in Int
    /\ \A k \in DOMAIN gameState'.trace :
          (/\ gameState'.trace[k].kind = "impact"
           /\ gameState'.trace[k].amount = 0
           /\ gameState.projectiles[1].damagePerHit.tag = "number") =>
              LET before == gameState.obj[1].hitPoints
                  multiplier == IF "modifiers" \in DOMAIN gameState
                                THEN OrDefault(MultiplierRead(gameState), MultDen)
                                ELSE MultDen
                  raw == Max2(0, Round(gameState.projectiles[1].damagePerHit.v * multiplier,
                                       MultDen))
              IN before - gameState'.obj[1].hitPoints = Min2(before, raw)

\* C28: whatever finite, non-finite or missing values the enemy's speed, the
\* projectile's damage and the global damage multiplier hold, and with the
\* modifiers object missing, a frame raises no error, leaves every enemy's
\* hitPoints and position finite, and a direct hit of finite damage takes
\* what it takes with the multiplier replaced by 1 when that is missing or
\* not finite
C28_ClaimedTotal == [][C28_ClaimedStep]_vars

\* ------------------------------------------------------------------------
\* C29
\* ------------------------------------------------------------------------
C29_ClaimedStep ==
    \A k \in DOMAIN gameState'.trace :
        \A i \in DOMAIN gameState'.projectiles :
            LET fire == gameState'.trace[k]
                projectile == gameState'.projectiles[i]
                base == towersByTypeKey[projectile.towerTypeKey].projectileEffects
            IN (/\ fire.kind = "fire"
                /\ fire.projectile = projectile.id
                /\ UpgradeLevel(gameState.towers[fire.amount], "shockwave") = 1) =>
                   /\ DOMAIN base \subseteq DOMAIN projectile.effects
                   /\ "aftershock" \in DOMAIN projectile.effects

\* C29: a projectile fired by a tower that has received the shockwave
\* upgrade carries every effect of the tower type's configuration, which
\* the tower's projectiles carried before the upgrade, and the aftershock
\* the upgrade unlocks
C29_ClaimedKeepsEffects == [][C29_ClaimedStep]_vars

\* ------------------------------------------------------------------------
\* The projectile pass comes to an end
\* ------------------------------------------------------------------------
\* the projectiles a projectile carrying these effects brings forth through
\* applyClusterImpact, over all generations
RECURSIVE Descendants(_)
Descendants(effects) ==
    IF "cluster" \in DOMAIN effects /\ effects.cluster.enabled
    THEN ClusterCount(effects.cluster)
           * (1 + Descendants(ClusterChildEffects(effects.cluster)))
    ELSE 0

\* ids of the projectiles pushed during the frame: fired or spawned
PushedIds(trace) ==
    {trace[k].projectile : k \in {j \in DOMAIN trace : trace[j].kind = "fire"}}
      \cup {trace[k].amount : k \in {j \in DOMAIN trace : trace[j].kind = "spawn"}}

\* iterations of the projectile pass on projectile id
TravelCount(trace, id) ==
    Len(SelectSeq(trace, LAMBDA e : e.kind = "travel" /\ e.projectile = id))

C30_Step ==
    LET trace == gameState'.trace
        before == LiveProjectileIds(gameState)
        pushed == PushedIds(trace)
        budget == [i \in DOMAIN gameState.projectiles |->
                      Descendants(EffectsWithFallback(gameState.projectiles[i]))]
    IN (trace # << >> /\ trace[1].kind = "update") =>
          /\ \A id \in before \cup pushed : TravelCount(trace, id) = 1
          /\ \A k \in DOMAIN trace :
                trace[k].kind = "travel" => trace[k].projectile \in before \cup pushed
          /\ Cardinality(pushed) <= SumSeq(budget, 1)
          /\ \A i \in DOMAIN gameState'.projectiles :
                gameState'.projectiles[i].travelProgress < TicksPerSecond

\* C30: a frame comes to an end for every elapsed time: the projectile pass
\* visits every projectile that was in flight or was pushed during the pass
\* exactly once and no other, the projectiles pushed are no more than the
\* cluster configurations of the projectiles in flight provide, generation
\* by generation, and every projectile left in flight is short of its target
C30_FrameTerminates == [][C30_Step]_vars

\* a frame in which a cluster child pushed during the pass reached its
\* target in the same pass and pushed children of its own, which the pass
\* visited too
C30_Witness ==
    \E k, m, n \in DOMAIN gameState.trace :
        /\ gameState.trace[1].kind = "update"
        /\ gameState.trace[k].kind = "spawn"
        /\ k < m /\ m < n
        /\ gameState.trace[m].kind = "spawn"
        /\ gameState.trace[m].projectile = gameState.trace[k].amount
        /\ gameState.trace[n].kind = "travel"
        /\ gameState.trace[n].projectile = gameState.trace[m].amount

====
